---------------------------- MODULE Spec2Model ----------------------------
(***************************************************************************)
(* StarBreaker: archive mount extraction cache, VFS mount stack, VFS tree  *)
(* listing, archive index and entry extraction, DataCore records (eager    *)
(* and lazy) and geometry files.                                           *)
(*                                                                         *)
(* Each subsystem has its own specification over the shared variable       *)
(* list; the variables of the other subsystems stay at their initial       *)
(* values.                                                                 *)
(*   Spec        P4kMountPoint reads through LruCache (crates/vfs/p4k.rs)  *)
(*   SpecVfs     Vfs mount stack and routing (crates/vfs/lib.rs)           *)
(*   SpecTree    VfsTree listing over mounts (crates/vfs/tree.rs)          *)
(*   SpecExtract P4kParser::extract_entry (parsers/p4k/mod.rs)             *)
(*   SpecP4k     P4kParser::parse_with_options on file bytes               *)
(*   SpecLazy    LazyRecord, one caller (parsers/dcb/records.rs)           *)
(*   SpecLazyConc LazyRecord, several threads                              *)
(*   SpecDcb     DcbParser record table and LazyDataCore::to_eager         *)
(*   SpecCgf     CgfParser::parse_with_options (parsers/cgf/mod.rs)        *)
(*   SpecArchive P4kArchive::find and list_directory (parsers/p4k/         *)
(*               archive.rs)                                               *)
(*   SpecChunked ChunkedReader over VfsStreamReader (crates/vfs/stream.rs) *)
(*   SpecRegistry ParserRegistry (parsers/registry.rs)                     *)
(*   SpecCombiner DdsCombiner::find_split_files (parsers/dds/combiner.rs)  *)
(***************************************************************************)
EXTENDS Integers, Sequences, FiniteSets, TLC

VARIABLES
    cache,        \* P4kMountPoint.cache : LruCache {entries, order, max_size_bytes, current_size}
    pc,           \* per reader thread: position inside extract_cached
    tpath,        \* per reader thread: the archive path being read
    lastRead,     \* history: the latest completed read (path, result, keys its insert evicted)
    reads,        \* history: number of read calls started
    hitKey,       \* history: key of the latest cache hit (None after it is evicted or cleared)
    hitPending,   \* history: keys cached at that hit and not evicted since
    mounts,       \* Vfs.mounts : the mount stack, each mount {kind, root, mount_path, read_only}
    disk,         \* the local file system: root -> (relative path -> node {dir, data})
    vfsLast,      \* history: the latest Vfs call (op, path, index of the mount routed to, result)
    arcFile,      \* the archive file an extraction reads (magic, central directory, local records)
    exLast,       \* history: the latest extract_entry call and its result
    treeMounts,   \* VfsTree.mounts : mounts in the order list_directory visits them
    treeCache,    \* VfsTree.mount_cache : mount id -> mount
    treeLast,     \* history: the latest VfsTree call and its result
    lazyDb,       \* LazyDataCore: file handle, file bytes, structs, properties, the record
    recValues,    \* LazyRecord.values : the value cache, NotLoaded or the value map
    loads,        \* history: number of load_record calls
    decodes,      \* history: number of runs of the loader (load_record_values)
    lazyLast,     \* history: the latest call on the record and its result
    lzLock,       \* LazyRecord.values' RwLock: the thread holding it for writing, 0 if none
    lzPc,         \* per thread: position inside LazyRecord::get / values
    lzLocal,      \* per thread: the loader's local state (property index, file position, map)
    lzSeen,       \* per thread: what its latest call observed of the value cache
    cgfIn,        \* the geometry file given to CgfParser (bytes) and the parse options
    cgfLast,      \* history: the result of CgfParser::parse_with_options on it
    dcbIn,        \* the record database given to DcbParser and to LazyDataCore (file, tables)
    dcbLast,      \* history: the records of the eager parse and of LazyDataCore::to_eager
    p4kIn,        \* the bytes of the archive file given to P4kParser, and how they were laid out
    p4kLast,      \* history: the result of P4kParser::parse_with_options on it
    arch,         \* P4kArchive.entries : the entries of a parsed archive, each with its path
    queryLast,    \* history: the latest find / list_directory call and the entries returned
    chunked,      \* ChunkedReader: the stream, the VfsStreamReader buffer, chunk_size
    chunkLast,    \* history: the chunks read_chunk returned, whether it returned None or hung
    registry,     \* ParserRegistry: parsers (id -> registration), extension_map (ext -> ids)
    regLast,      \* history: the latest registry call and its result
    splitIn,      \* the split files that exist beside a texture (file names)
    splitLast     \* history: the result of DdsCombiner::find_split_files

readerVars == <<pc, tpath, lastRead, reads, hitKey, hitPending>>
cacheVars == <<cache, readerVars>>
vfsVars == <<mounts, disk, vfsLast>>
extractVars == <<arcFile, exLast>>
treeVars == <<treeMounts, treeCache, treeLast>>
lazyVars == <<lazyDb, recValues, loads, decodes, lazyLast>>
lazyConcVars == <<lzLock, lzPc, lzLocal, lzSeen>>
cgfVars == <<cgfIn, cgfLast>>
dcbVars == <<dcbIn, dcbLast>>
p4kVars == <<p4kIn, p4kLast>>
archiveVars == <<arch, queryLast>>
chunkedVars == <<chunked, chunkLast>>
registryVars == <<registry, regLast>>
combinerVars == <<splitIn, splitLast>>
moreVars == <<archiveVars, chunkedVars, registryVars, combinerVars>>
restVars == <<lazyConcVars, cgfVars, dcbVars, p4kVars, moreVars>>
notLazyVars == <<cacheVars, vfsVars, extractVars, treeVars, cgfVars, dcbVars, p4kVars, moreVars>>
notCgfVars ==
    <<cacheVars, vfsVars, extractVars, treeVars, lazyVars, lazyConcVars, dcbVars, p4kVars, moreVars>>
notDcbVars ==
    <<cacheVars, vfsVars, extractVars, treeVars, lazyVars, lazyConcVars, cgfVars, p4kVars, moreVars>>
notP4kVars ==
    <<cacheVars, vfsVars, extractVars, treeVars, lazyVars, lazyConcVars, cgfVars, dcbVars, moreVars>>
firstVars ==
    <<cacheVars, vfsVars, extractVars, treeVars, lazyVars, lazyConcVars, cgfVars, dcbVars, p4kVars>>
notArchiveVars == <<firstVars, chunkedVars, registryVars, combinerVars>>
notChunkedVars == <<firstVars, archiveVars, registryVars, combinerVars>>
notRegistryVars == <<firstVars, archiveVars, chunkedVars, combinerVars>>
notCombinerVars == <<firstVars, archiveVars, chunkedVars, registryVars>>
notCacheVars == <<vfsVars, extractVars, treeVars, lazyVars, restVars>>
notVfsVars == <<readerVars, extractVars, treeVars, lazyVars, restVars>>

vars == <<cache, pc, tpath, lastRead, reads, hitKey, hitPending, mounts, disk, vfsLast,
          arcFile, exLast, treeMounts, treeCache, treeLast, lazyDb, recValues, loads,
          decodes, lazyLast, lzLock, lzPc, lzLocal, lzSeen,
          cgfIn, cgfLast, dcbIn, dcbLast,
          p4kIn, p4kLast, arch, queryLast, chunked, chunkLast, registry, regLast,
          splitIn, splitLast>>

None == "none"

(***************************************************************************)
(* Bounds                                                                  *)
(***************************************************************************)
NumThreads == 2
MaxReads == 5

Threads == 1..NumThreads

(***************************************************************************)
(* u32 values as pairs <<high 16 bits, low 16 bits>>                       *)
(***************************************************************************)
U32(hi, lo) == <<hi, lo>>

\* bitwise exclusive or of two naturals
RECURSIVE BitXor(_, _)
BitXor(x, y) ==
    IF x = 0 /\ y = 0 THEN 0
    ELSE (((x % 2) + (y % 2)) % 2) + 2 * BitXor(x \div 2, y \div 2)

Xor(x, y) == <<BitXor(x[1], y[1]), BitXor(x[2], y[2])>>

\* x >> 1
Shr1(x) == <<x[1] \div 2, (x[2] \div 2) + (x[1] % 2) * 32768>>

AllOnes == U32(65535, 65535)

\* reflected CRC-32 polynomial 0xEDB88320
CrcPoly == U32(60856, 33568)

\* one round of the bitwise CRC step
CrcStep(c) == IF c[2] % 2 = 1 THEN Xor(Shr1(c), CrcPoly) ELSE Shr1(c)

\* the eight rounds that consume one byte
CrcByte(c) == CrcStep(CrcStep(CrcStep(CrcStep(CrcStep(CrcStep(CrcStep(CrcStep(c))))))))

\* the values of a u32
Words == (0..65535) \X (0..65535)

\* the CRC register after the bytes of data, starting from c; the register is
\* a u32 after every byte
RECURSIVE CrcUpdate(_, _)
CrcUpdate(c, data) ==
    IF data = <<>> THEN c
    ELSE LET d == CrcByte(Xor(c, U32(0, Head(data))))
         IN  IF d \in Words THEN CrcUpdate(d, Tail(data)) ELSE AllOnes

\* P4kCompression::crc32 (crc32fast: CRC-32/ISO-HDLC)
Crc32(data) == Xor(CrcUpdate(AllOnes, data), AllOnes)

\* P4kCompression::verify_crc32
VerifyCrc32(data, expected) == Crc32(data) = expected

(***************************************************************************)
(* P4kParser: archive file, parse, extract_entry, extract_data             *)
(*                                                                         *)
(* An archive file is a record: magic (the first four bytes are P4K_MAGIC),*)
(* cd (the central directory entries in file order) and local (offset ->   *)
(* local record: its signature and the bytes that follow its header, name  *)
(* and extra field up to the end of the file).                             *)
(* The Deflate, Zstd and LZ4 codecs are library code; entries here are     *)
(* stored or carry an unknown method tag.                                  *)
(***************************************************************************)
LOCAL_HEADER_SIGNATURE == 67324752
CD_SIGNATURE == 33639248

Ok(data) == [ok |-> TRUE, err |-> None, data |-> data]
Err(kind) == [ok |-> FALSE, err |-> kind, data |-> <<>>]

P4kEntry(path, method, crc, csize, usize, offset) ==
    [path |-> path, compression |-> method, crc32 |-> crc, compressed_size |-> csize,
     uncompressed_size |-> usize, local_header_offset |-> offset]

\* P4kCompression::decompress
Decompress(data, method, expected_size) ==
    CASE method = "Store" -> Ok(data)
      [] method = "Unknown" -> Err("UnsupportedFeature")

\* P4kParser::extract_data
ExtractData(file, entry) ==
    IF entry.local_header_offset \notin DOMAIN file.local THEN Err("Io")
    ELSE LET h == file.local[entry.local_header_offset]
         IN  IF h.sig # LOCAL_HEADER_SIGNATURE THEN Err("InvalidMagic")
             ELSE IF Len(h.data) < entry.compressed_size THEN Err("Io")
             ELSE Decompress(SubSeq(h.data, 1, entry.compressed_size), entry.compression,
                             entry.uncompressed_size)

\* a path index that numbers the entries from the second position on
RECURSIVE PathIndexOffByOne(_, _)
PathIndexOffByOne(entries, n) ==
    IF n = 0 THEN [k \in {} |-> 0]
    ELSE LET m == PathIndexOffByOne(entries, n - 1)
             p == entries[n].path
         IN  [x \in (DOMAIN m) \cup {p} |-> IF x = p THEN n + 1 ELSE m[x]]

\* the path index parse_with_options builds: a later entry replaces an earlier
\* one with the same path
RECURSIVE PathIndex(_, _)
PathIndex(entries, n) ==
    IF n = 0 THEN [k \in {} |-> 0]
    ELSE LET m == PathIndex(entries, n - 1)
             p == entries[n].path
         IN  [x \in (DOMAIN m) \cup {p} |-> IF x = p THEN n ELSE m[x]]

\* P4kParser::parse_with_options
ParseArchive(file) ==
    IF ~file.magic THEN [ok |-> FALSE, err |-> "InvalidMagic", entries |-> <<>>,
                         path_index |-> [k \in {} |-> 0]]
    ELSE [ok |-> TRUE, err |-> None, entries |-> file.cd,
          path_index |-> PathIndex(file.cd, Len(file.cd))]

\* P4kParser::extract_entry
ExtractEntry(file, entry_id) ==
    LET archive == ParseArchive(file)
    IN  IF ~archive.ok THEN Err(archive.err)
        ELSE IF entry_id \notin DOMAIN archive.path_index THEN Err("MissingField")
        ELSE ExtractData(file, archive.entries[archive.path_index[entry_id]])

(***************************************************************************)
(* The archive behind the mount: stored entries of 4, 4, 4, 2 and cap+1    *)
(* bytes. Cap and sizes follow test_lru_cache_eviction and scenario E3.    *)
(***************************************************************************)
MaxSizeBytes == 10

ArchiveOrder == <<"a", "b", "c", "k", "big">>
ArchivePaths == {ArchiveOrder[i] : i \in 1..Len(ArchiveOrder)}
ReadPaths == ArchivePaths \cup {"missing"}

Content(p) ==
    CASE p = "a" -> <<1, 2, 3, 4>>
      [] p = "b" -> <<5, 6, 7, 8>>
      [] p = "c" -> <<9, 10, 11, 12>>
      [] p = "k" -> <<13, 14>>
      [] p = "big" -> [i \in 1..(MaxSizeBytes + 1) |-> 15]

\* the file P4kMountPoint.archive_path names
MountFile ==
    [magic |-> TRUE,
     cd |-> [i \in 1..Len(ArchiveOrder) |->
                P4kEntry(ArchiveOrder[i], "Store", Crc32(Content(ArchiveOrder[i])),
                         Len(Content(ArchiveOrder[i])), Len(Content(ArchiveOrder[i])), i)],
     local |-> [i \in 1..Len(ArchiveOrder) |->
                [sig |-> LOCAL_HEADER_SIGNATURE, data |-> Content(ArchiveOrder[i])]]]

(***************************************************************************)
(* LruCache                                                                *)
(***************************************************************************)
EmptyMap == [k \in {} |-> 0]

MapPut(m, k, v) == [x \in (DOMAIN m) \cup {k} |-> IF x = k THEN v ELSE m[x]]

MapRemove(m, k) == [x \in (DOMAIN m) \ {k} |-> m[x]]

\* Vec::iter().position(|k| k == key): index of the first occurrence, 0 if none
Position(order, key) ==
    IF \E i \in 1..Len(order) : order[i] = key
    THEN CHOOSE i \in 1..Len(order) :
            /\ order[i] = key
            /\ \A j \in 1..(i - 1) : order[j] # key
    ELSE 0

\* Vec::remove(pos)
RemoveAt(s, i) == SubSeq(s, 1, i - 1) \o SubSeq(s, i + 1, Len(s))

LruCacheNew(max) ==
    [entries |-> EmptyMap, order |-> <<>>, max_size_bytes |-> max, current_size |-> 0]

\* LruGet returning the bytes of the most recently used entry instead of key's
LruGetLastUsed(c, key) ==
    IF key \in DOMAIN c.entries
    THEN LET pos == Position(c.order, key)
             newOrder == IF pos # 0 THEN Append(RemoveAt(c.order, pos), key) ELSE c.order
             mru == c.order[Len(c.order)]
         IN  [cache |-> [c EXCEPT !.order = newOrder], some |-> TRUE,
              data |-> IF mru \in DOMAIN c.entries THEN c.entries[mru].data ELSE <<>>]
    ELSE [cache |-> c, some |-> FALSE, data |-> <<>>]

\* LruCache::get: the cache after the call and the Option returned (some, data)
LruGet(c, key) ==
    IF key \in DOMAIN c.entries
    THEN LET pos == Position(c.order, key)
             newOrder == IF pos # 0 THEN Append(RemoveAt(c.order, pos), key) ELSE c.order
         IN  [cache |-> [c EXCEPT !.order = newOrder], some |-> TRUE, data |-> c.entries[key].data]
    ELSE [cache |-> c, some |-> FALSE, data |-> <<>>]

\* the eviction loop of LruCache::insert
RECURSIVE EvictLoop(_, _)
EvictLoop(c, size) ==
    IF c.current_size + size > c.max_size_bytes /\ c.order # <<>>
    THEN LET oldest == Head(c.order)
             c1 == [c EXCEPT !.order = Tail(c.order)]
             c2 == IF oldest \in DOMAIN c1.entries
                   THEN [c1 EXCEPT !.entries = MapRemove(c1.entries, oldest),
                                   !.current_size = c1.current_size - c1.entries[oldest].size]
                   ELSE c1
         IN  EvictLoop(c2, size)
    ELSE c

\* LruInsert without the "only insert if it fits" test
LruInsertAlways(c, key, data) ==
    LET size == Len(data)
        c1 == EvictLoop(c, size)
    IN  [c1 EXCEPT !.entries = MapPut(c1.entries, key, [data |-> data, size |-> size]),
                   !.order = Append(c1.order, key),
                   !.current_size = c1.current_size + size]

\* LruCache::insert
LruInsert(c, key, data) ==
    LET size == Len(data)
        c1 == EvictLoop(c, size)
    IN  IF size <= c1.max_size_bytes
        THEN [c1 EXCEPT !.entries = MapPut(c1.entries, key, [data |-> data, size |-> size]),
                        !.order = Append(c1.order, key),
                        !.current_size = c1.current_size + size]
        ELSE c1

\* LruCache::clear
LruClear(c) == [c EXCEPT !.entries = EmptyMap, !.order = <<>>, !.current_size = 0]

\* the extraction inside extract_cached: parser.extract_entry on the mount's file
MountExtract(p) == ExtractEntry(MountFile, p)

\* keys the insert of (key, data) removes from the cache
EvictedBy(c, key, data) == (DOMAIN c.entries) \ (DOMAIN EvictLoop(c, Len(data)).entries)

(***************************************************************************)
(* P4kMountPoint::read -> extract_cached, one reader thread t.             *)
(* The cache lock is taken for get and again for insert; the extraction    *)
(* between them runs unlocked.                                             *)
(***************************************************************************)
\* cache.write().get(path) is a hit: return the shared bytes
ReadHit(t, p) ==
    /\ pc[t] = "idle"
    /\ reads < MaxReads
    /\ LruGet(cache, p).some
    /\ LET r == LruGet(cache, p)
       IN  /\ cache' = r.cache
           /\ lastRead' = [path |-> p, status |-> "ok", via |-> "hit", data |-> r.data,
                           evicted |-> {}]
    /\ reads' = reads + 1
    /\ hitKey' = p
    /\ hitPending' = (DOMAIN cache.entries) \ {p}
    /\ UNCHANGED <<pc, tpath, notCacheVars>>

\* cache.write().get(path) is a miss: the lock is released, extraction follows
ReadMiss(t, p) ==
    /\ pc[t] = "idle"
    /\ reads < MaxReads
    /\ ~LruGet(cache, p).some
    /\ cache' = LruGet(cache, p).cache
    /\ pc' = [pc EXCEPT ![t] = "extract"]
    /\ tpath' = [tpath EXCEPT ![t] = p]
    /\ reads' = reads + 1
    /\ UNCHANGED <<lastRead, hitKey, hitPending, notCacheVars>>

\* extract_entry fails: the error is returned, nothing is cached
ExtractFail(t) ==
    /\ pc[t] = "extract"
    /\ ~MountExtract(tpath[t]).ok
    /\ pc' = [pc EXCEPT ![t] = "idle"]
    /\ tpath' = [tpath EXCEPT ![t] = None]
    /\ lastRead' = [path |-> tpath[t], status |-> "err", via |-> "miss", data |-> <<>>,
                    evicted |-> {}]
    /\ UNCHANGED <<cache, reads, hitKey, hitPending, notCacheVars>>

\* extract_entry succeeds: cache.write().insert(path, data.clone()); return data
ExtractInsert(t) ==
    /\ pc[t] = "extract"
    /\ MountExtract(tpath[t]).ok
    /\ LET data == MountExtract(tpath[t]).data
           gone == EvictedBy(cache, tpath[t], data)
       IN  /\ cache' = LruInsert(cache, tpath[t], data)
           /\ lastRead' = [path |-> tpath[t], status |-> "ok", via |-> "miss", data |-> data,
                           evicted |-> gone]
           /\ hitKey' = IF hitKey \in gone THEN None ELSE hitKey
           /\ hitPending' = IF hitKey \in gone THEN {} ELSE hitPending \ gone
    /\ pc' = [pc EXCEPT ![t] = "idle"]
    /\ tpath' = [tpath EXCEPT ![t] = None]
    /\ UNCHANGED <<reads, notCacheVars>>

\* P4kMountPoint::clear_cache
ClearCache ==
    /\ cache.order # <<>>
    /\ cache' = LruClear(cache)
    /\ hitKey' = None
    /\ hitPending' = {}
    /\ UNCHANGED <<pc, tpath, lastRead, reads, notCacheVars>>

NoRead == [path |-> None, status |-> "none", via |-> "none", data |-> <<>>, evicted |-> {}]

CacheInit ==
    /\ cache = LruCacheNew(MaxSizeBytes)
    /\ pc = [t \in Threads |-> "idle"]
    /\ tpath = [t \in Threads |-> None]
    /\ lastRead = NoRead
    /\ reads = 0
    /\ hitKey = None
    /\ hitPending = {}

CacheNext ==
    \/ \E t \in Threads, p \in ReadPaths : ReadHit(t, p)
    \/ \E t \in Threads, p \in ReadPaths : ReadMiss(t, p)
    \/ \E t \in Threads : ExtractFail(t)
    \/ \E t \in Threads : ExtractInsert(t)
    \/ ClearCache

(***************************************************************************)
(* Vfs (crates/vfs/lib.rs): mount stack, routing, LocalMount and           *)
(* P4kMountPoint behind it. A path is the sequence of its components       *)
(* below "/"; Path::starts_with and strip_prefix work on components.       *)
(***************************************************************************)
\* Path::starts_with
StartsWith(p, base) == Len(base) <= Len(p) /\ SubSeq(p, 1, Len(base)) = base

\* Path::strip_prefix, for a path that starts with base
StripPrefix(p, base) == SubSeq(p, Len(base) + 1, Len(p))

\* Path::parent
Parent(p) == SubSeq(p, 1, Len(p) - 1)

\* Path::as_os_str().len(): "/" and the names, a separator between names
RECURSIVE NamesLen(_)
NamesLen(p) == IF p = <<>> THEN 0 ELSE 1 + Len(Head(p)) + NamesLen(Tail(p))

OsStrLen(p) == IF p = <<>> THEN 1 ELSE NamesLen(p)

\* relative.to_string_lossy(): the components joined with '/'
RECURSIVE JoinSlash(_)
JoinSlash(rel) ==
    IF rel = <<>> THEN ""
    ELSE IF Len(rel) = 1 THEN rel[1]
    ELSE rel[1] \o "/" \o JoinSlash(Tail(rel))

\* LocalMount::new, LocalMount::read_only, P4kMountPoint::new
LocalMountNew(root, mount_path) ==
    [kind |-> "local", root |-> root, mount_path |-> mount_path, read_only |-> FALSE]

LocalMountReadOnly(root, mount_path) ==
    [kind |-> "local", root |-> root, mount_path |-> mount_path, read_only |-> TRUE]

P4kMountPointNew(mount_path) ==
    [kind |-> "p4k", root |-> None, mount_path |-> mount_path, read_only |-> TRUE]

\* MountPoint::is_read_only
IsReadOnly(m) == IF m.kind = "p4k" THEN TRUE ELSE m.read_only

\* the conflict test of Vfs::mount looking in one direction only
MountConflictOneWay(ms, new_path) ==
    \E i \in 1..Len(ms) : StartsWith(new_path, ms[i].mount_path)

\* the conflict test of Vfs::mount
MountConflict(ms, new_path) ==
    \E i \in 1..Len(ms) :
        \/ StartsWith(new_path, ms[i].mount_path)
        \/ StartsWith(ms[i].mount_path, new_path)

\* one step of the stable sort by descending path length: m goes behind the
\* mounts whose path is at least as long
InsertByLen(sorted, m) ==
    LET ahead == {i \in 1..Len(sorted) :
                    OsStrLen(sorted[i].mount_path) >= OsStrLen(m.mount_path)}
        k == Cardinality(ahead)
    IN  SubSeq(sorted, 1, k) \o <<m>> \o SubSeq(sorted, k + 1, Len(sorted))

\* mounts.sort_by(longest mount path first)
RECURSIVE SortByLen(_)
SortByLen(ms) ==
    IF ms = <<>> THEN <<>>
    ELSE InsertByLen(SortByLen(SubSeq(ms, 1, Len(ms) - 1)), ms[Len(ms)])

\* mounts.retain(|m| m.mount_path() != path)
RECURSIVE Retain(_, _)
Retain(ms, path) ==
    IF ms = <<>> THEN <<>>
    ELSE IF Head(ms).mount_path # path THEN <<Head(ms)>> \o Retain(Tail(ms), path)
    ELSE Retain(Tail(ms), path)

\* Vfs::get_mount matching the mount path exactly
GetMountExact(ms, path) ==
    IF \E i \in 1..Len(ms) : path = ms[i].mount_path
    THEN CHOOSE i \in 1..Len(ms) :
            /\ path = ms[i].mount_path
            /\ \A j \in 1..(i - 1) : path # ms[j].mount_path
    ELSE 0

\* Vfs::get_mount: index of the mount returned, 0 for None
GetMount(ms, path) ==
    IF \E i \in 1..Len(ms) : StartsWith(path, ms[i].mount_path)
    THEN CHOOSE i \in 1..Len(ms) :
            /\ StartsWith(path, ms[i].mount_path)
            /\ \A j \in 1..(i - 1) : ~StartsWith(path, ms[j].mount_path)
    ELSE 0

(***************************************************************************)
(* std::fs on one directory tree: relative path -> node. The parent of     *)
(* every node is a directory node of the tree; <<>> is the root directory. *)
(***************************************************************************)
DirNode == [dir |-> TRUE, data |-> <<>>]
FileNode(data) == [dir |-> FALSE, data |-> data]

IsDir(t, r) == r \in DOMAIN t /\ t[r].dir
IsFile(t, r) == r \in DOMAIN t /\ ~t[r].dir

Prefixes(r) == {SubSeq(r, 1, k) : k \in 0..Len(r)}

\* fs::create_dir_all
FsCreateDirAll(t, r) ==
    IF \E q \in Prefixes(r) : IsFile(t, q) THEN [ok |-> FALSE, tree |-> t]
    ELSE [ok |-> TRUE,
          tree |-> [x \in (DOMAIN t) \cup Prefixes(r) |-> IF x \in DOMAIN t THEN t[x] ELSE DirNode]]

\* fs::write
FsWrite(t, r, data) ==
    IF IsDir(t, r) \/ (r # <<>> /\ ~IsDir(t, Parent(r))) THEN [ok |-> FALSE, tree |-> t]
    ELSE [ok |-> TRUE, tree |-> MapPut(t, r, FileNode(data))]

\* fs::remove_dir_all on a directory, fs::remove_file otherwise
FsRemove(t, r) ==
    IF IsDir(t, r)
    THEN [ok |-> TRUE, tree |-> [x \in {y \in DOMAIN t : ~StartsWith(y, r)} |-> t[x]]]
    ELSE IF IsFile(t, r) THEN [ok |-> TRUE, tree |-> MapRemove(t, r)]
    ELSE [ok |-> FALSE, tree |-> t]

\* fs::read
FsRead(t, r) == IF IsFile(t, r) THEN Ok(t[r].data) ELSE Err("IoError")

\* fs::read_dir: the names of the children
FsReadDir(t, r) ==
    IF IsDir(t, r)
    THEN Ok({x[Len(x)] : x \in {y \in DOMAIN t : Len(y) = Len(r) + 1 /\ StartsWith(y, r)}})
    ELSE Err("IoError")

\* fs::metadata
FsMetadata(t, r) ==
    IF r \in DOMAIN t THEN Ok([is_directory |-> t[r].dir, size |-> Len(t[r].data)])
    ELSE Err("IoError")

(***************************************************************************)
(* MountPoint operations: the result and the disk or cache afterwards      *)
(***************************************************************************)
\* LocalMount::write without the read_only test
LocalWriteUnchecked(m, d, path, data) ==
    LET rel == StripPrefix(path, m.mount_path)
        made == IF rel = <<>> THEN [ok |-> TRUE, tree |-> d[m.root]]
                ELSE FsCreateDirAll(d[m.root], Parent(rel))
        written == FsWrite(made.tree, rel, data)
    IN  IF ~made.ok THEN [result |-> Err("IoError"), disk |-> d]
        ELSE [result |-> IF written.ok THEN Ok(<<>>) ELSE Err("IoError"),
              disk |-> [d EXCEPT ![m.root] = written.tree]]

\* LocalMount::write
LocalWrite(m, d, path, data) ==
    IF m.read_only THEN [result |-> Err("ReadOnly"), disk |-> d]
    ELSE LocalWriteUnchecked(m, d, path, data)

\* LocalMount::create_dir
LocalCreateDir(m, d, path) ==
    IF m.read_only THEN [result |-> Err("ReadOnly"), disk |-> d]
    ELSE LET made == FsCreateDirAll(d[m.root], StripPrefix(path, m.mount_path))
         IN  [result |-> IF made.ok THEN Ok(<<>>) ELSE Err("IoError"),
              disk |-> [d EXCEPT ![m.root] = made.tree]]

\* LocalMount::delete
LocalDelete(m, d, path) ==
    IF m.read_only THEN [result |-> Err("ReadOnly"), disk |-> d]
    ELSE LET gone == FsRemove(d[m.root], StripPrefix(path, m.mount_path))
         IN  [result |-> IF gone.ok THEN Ok(<<>>) ELSE Err("IoError"),
              disk |-> [d EXCEPT ![m.root] = gone.tree]]

\* P4kMountPoint::read on one thread: extract_cached from get to insert
P4kRead(m, c, path) ==
    LET key == JoinSlash(StripPrefix(path, m.mount_path))
        got == LruGet(c, key)
        fresh == MountExtract(key)
    IN  IF got.some THEN [result |-> Ok(got.data), cache |-> got.cache]
        ELSE IF ~fresh.ok THEN [result |-> Err("IoError"), cache |-> got.cache]
        ELSE [result |-> Ok(fresh.data), cache |-> LruInsert(got.cache, key, fresh.data)]

\* P4kMountPoint::list: archive.list_directory of the relative path. Every
\* entry of MountFile is a file at the top of the archive.
P4kList(m, path) ==
    IF StripPrefix(path, m.mount_path) = <<>> THEN Ok(ArchivePaths) ELSE Ok({})

\* P4kMountPoint::metadata: archive.get(path) or archive.get(path + "/")
P4kMetadata(m, path) ==
    LET key == JoinSlash(StripPrefix(path, m.mount_path))
        index == ParseArchive(MountFile).path_index
        entries == ParseArchive(MountFile).entries
    IN  IF key \in DOMAIN index
        THEN Ok([is_directory |-> FALSE, size |-> entries[index[key]].uncompressed_size])
        ELSE IF (key \o "/") \in DOMAIN index
        THEN Ok([is_directory |-> TRUE, size |-> entries[index[key \o "/"]].uncompressed_size])
        ELSE Err("NotFound")

(***************************************************************************)
(* Vfs calls. /data and /data/sub overlap, /data and /data2 do not; the    *)
(* local mounts share one root directory, which holds the file "a".        *)
(***************************************************************************)
LocalRoot == "r1"
MountPaths == {<<"data">>, <<"data", "sub">>, <<"data2">>}
OpPaths == {<<"data", "a">>, <<"data", "sub">>, <<"data", "sub", "a">>, <<"data2", "a">>,
            <<"other", "a">>}
OldData == <<7>>
NewData == <<9, 9>>

MountObjects ==
    {LocalMountNew(LocalRoot, p) : p \in MountPaths}
        \cup {LocalMountReadOnly(LocalRoot, p) : p \in MountPaths}
        \cup {P4kMountPointNew(p) : p \in MountPaths}

NoCall == [op |-> "none", path |-> <<>>, mount |-> 0, result |-> Err(None)]

VfsInit ==
    /\ mounts = <<>>
    /\ disk = [r \in {LocalRoot} |-> MapPut(MapPut(EmptyMap, <<>>, DirNode), <<"a">>, FileNode(OldData))]
    /\ vfsLast = NoCall

\* Vfs::mount
VfsMount(m) ==
    /\ IF MountConflict(mounts, m.mount_path)
       THEN /\ mounts' = mounts
            /\ vfsLast' = [op |-> "mount", path |-> m.mount_path, mount |-> 0,
                           result |-> Err("MountError")]
       ELSE /\ mounts' = SortByLen(Append(mounts, m))
            /\ vfsLast' = [op |-> "mount", path |-> m.mount_path, mount |-> 0,
                           result |-> Ok(<<>>)]
    /\ UNCHANGED <<disk, cache, notVfsVars>>

\* Vfs::unmount
VfsUnmount(path) ==
    /\ mounts' = Retain(mounts, path)
    /\ vfsLast' = [op |-> "unmount", path |-> path, mount |-> 0,
                   result |-> IF Len(Retain(mounts, path)) = Len(mounts)
                              THEN Err("NoMountPoint") ELSE Ok(<<>>)]
    /\ UNCHANGED <<disk, cache, notVfsVars>>

\* Vfs::read
VfsRead(path) ==
    LET i == GetMount(mounts, path)
    IN  /\ IF i = 0
           THEN /\ vfsLast' = [op |-> "read", path |-> path, mount |-> 0,
                               result |-> Err("NoMountPoint")]
                /\ cache' = cache
           ELSE IF mounts[i].kind = "p4k"
           THEN /\ vfsLast' = [op |-> "read", path |-> path, mount |-> i,
                               result |-> P4kRead(mounts[i], cache, path).result]
                /\ cache' = P4kRead(mounts[i], cache, path).cache
           ELSE /\ vfsLast' = [op |-> "read", path |-> path, mount |-> i,
                               result |-> FsRead(disk[mounts[i].root],
                                                 StripPrefix(path, mounts[i].mount_path))]
                /\ cache' = cache
        /\ UNCHANGED <<mounts, disk, notVfsVars>>

\* Vfs::list
VfsList(path) ==
    LET i == GetMount(mounts, path)
    IN  /\ vfsLast' = [op |-> "list", path |-> path, mount |-> i,
                       result |-> IF i = 0 THEN Err("NoMountPoint")
                                  ELSE IF mounts[i].kind = "p4k" THEN P4kList(mounts[i], path)
                                  ELSE FsReadDir(disk[mounts[i].root],
                                                 StripPrefix(path, mounts[i].mount_path))]
        /\ UNCHANGED <<mounts, disk, cache, notVfsVars>>

\* Vfs::metadata
VfsMetadata(path) ==
    LET i == GetMount(mounts, path)
    IN  /\ vfsLast' = [op |-> "metadata", path |-> path, mount |-> i,
                       result |-> IF i = 0 THEN Err("NoMountPoint")
                                  ELSE IF mounts[i].kind = "p4k" THEN P4kMetadata(mounts[i], path)
                                  ELSE FsMetadata(disk[mounts[i].root],
                                                  StripPrefix(path, mounts[i].mount_path))]
        /\ UNCHANGED <<mounts, disk, cache, notVfsVars>>

\* the call of a modifying operation on the mount the path routes to; a
\* P4kMountPoint keeps the MountPoint defaults, which return ReadOnly
Modify(i, local) ==
    IF i = 0 THEN [result |-> Err("NoMountPoint"), disk |-> disk]
    ELSE IF mounts[i].kind = "p4k" THEN [result |-> Err("ReadOnly"), disk |-> disk]
    ELSE local

\* Vfs::write
VfsWrite(path, data) ==
    LET i == GetMount(mounts, path)
        r == Modify(i, LocalWrite(mounts[i], disk, path, data))
    IN  /\ vfsLast' = [op |-> "write", path |-> path, mount |-> i, result |-> r.result]
        /\ disk' = r.disk
        /\ UNCHANGED <<mounts, cache, notVfsVars>>

\* Vfs::create_dir
VfsCreateDir(path) ==
    LET i == GetMount(mounts, path)
        r == Modify(i, LocalCreateDir(mounts[i], disk, path))
    IN  /\ vfsLast' = [op |-> "create_dir", path |-> path, mount |-> i, result |-> r.result]
        /\ disk' = r.disk
        /\ UNCHANGED <<mounts, cache, notVfsVars>>

\* Vfs::delete
VfsDelete(path) ==
    LET i == GetMount(mounts, path)
        r == Modify(i, LocalDelete(mounts[i], disk, path))
    IN  /\ vfsLast' = [op |-> "delete", path |-> path, mount |-> i, result |-> r.result]
        /\ disk' = r.disk
        /\ UNCHANGED <<mounts, cache, notVfsVars>>

VfsNext ==
    \/ \E m \in MountObjects : VfsMount(m)
    \/ \E p \in MountPaths : VfsUnmount(p)
    \/ \E p \in OpPaths : VfsRead(p)
    \/ \E p \in OpPaths : VfsList(p)
    \/ \E p \in OpPaths : VfsMetadata(p)
    \/ \E p \in OpPaths : VfsWrite(p, NewData)
    \/ \E p \in OpPaths : VfsCreateDir(p)
    \/ \E p \in OpPaths : VfsDelete(p)

(***************************************************************************)
(* Extraction of one entry from archive files of any content: the entry's  *)
(* record in the central directory and its local record are inputs.        *)
(***************************************************************************)
EntryName == "hello.txt"
ExtractPaths == {EntryName, "absent.txt"}

\* "Hello", its first byte, two other bytes, nothing
Payloads == {<<72, 101, 108, 108, 111>>, <<72>>, <<1, 2>>, <<>>}

Methods == {"Store", "Unknown"}
Signatures == {LOCAL_HEADER_SIGNATURE, CD_SIGNATURE}
Offsets == {1, 2}

ArchiveFiles ==
    {[magic |-> m,
      cd |-> <<P4kEntry(EntryName, meth, crc, csize, usize, off)>>,
      local |-> [o \in {1} |-> [sig |-> sig, data |-> payload]]] :
        m \in BOOLEAN, meth \in Methods, crc \in {Crc32(p) : p \in Payloads},
        csize \in 0..3, usize \in {2, 5}, off \in Offsets, sig \in Signatures,
        payload \in Payloads}

NoExtract == [path |-> None, ok |-> FALSE, err |-> None, data |-> <<>>]

ExtractInit ==
    /\ arcFile \in ArchiveFiles
    /\ exLast = NoExtract

ExtractIdle ==
    /\ arcFile = MountFile
    /\ exLast = NoExtract

\* parser.extract_entry(reader over arcFile, p)
Extract(p) ==
    /\ LET r == ExtractEntry(arcFile, p)
       IN  exLast' = [path |-> p, ok |-> r.ok, err |-> r.err, data |-> r.data]
    /\ UNCHANGED <<arcFile, cacheVars, vfsVars, treeVars, lazyVars, restVars>>

ExtractNext == \E p \in ExtractPaths : Extract(p)

(***************************************************************************)
(* VfsTree (crates/vfs/tree.rs) over MountPoint objects (crates/vfs/       *)
(* mount.rs). A mount is a record: id, priority and files, the names its   *)
(* list_directory returns for DataDir, in its order.                       *)
(***************************************************************************)
MaxMounts == 3

\* path::normalize_path on the '/'-separated pieces of a path: the components
\* of the normalized path below "/"
RECURSIVE NormalizePath(_)
NormalizePath(pieces) ==
    IF pieces = <<>> THEN <<>>
    ELSE LET n == Len(pieces)
             components == NormalizePath(SubSeq(pieces, 1, n - 1))
             component == pieces[n]
         IN  IF component = "" \/ component = "." THEN components
             ELSE IF component = ".."
             THEN SubSeq(components, 1, Len(components) - 1)
             ELSE Append(components, component)

DataDir == <<"Data">>

\* the VfsNode a mount builds for the k-th name of its listing
NodeOf(m, k) == [name |-> m.files[k], mount_id |-> m.id, size |-> k]

\* MountPoint::list_directory: PathNotFound where the mount holds nothing
MountListDirectory(m, path) ==
    IF path = DataDir /\ m.files # <<>>
    THEN [ok |-> TRUE, nodes |-> [k \in 1..Len(m.files) |-> NodeOf(m, k)]]
    ELSE [ok |-> FALSE, nodes |-> <<>>]

\* a sort that puts the lowest priority first
InsertByPriorityAscending(sorted, m) ==
    LET ahead == {i \in 1..Len(sorted) : sorted[i].priority <= m.priority}
        k == Cardinality(ahead)
    IN  SubSeq(sorted, 1, k) \o <<m>> \o SubSeq(sorted, k + 1, Len(sorted))

\* one step of the stable sort by descending priority: m goes behind the
\* mounts whose priority is at least its own
InsertByPriority(sorted, m) ==
    LET ahead == {i \in 1..Len(sorted) : sorted[i].priority >= m.priority}
        k == Cardinality(ahead)
    IN  SubSeq(sorted, 1, k) \o <<m>> \o SubSeq(sorted, k + 1, Len(sorted))

\* mounts.sort_by(|a, b| b.priority().cmp(&a.priority()))
RECURSIVE SortByPriority(_)
SortByPriority(ms) ==
    IF ms = <<>> THEN <<>>
    ELSE InsertByPriority(SortByPriority(SubSeq(ms, 1, Len(ms) - 1)), ms[Len(ms)])

\* a retain that also drops the mount at the bottom of the stack
RECURSIVE RetainOtherIdsAboveLast(_, _)
RetainOtherIdsAboveLast(ms, id) ==
    IF Len(ms) <= 1 THEN <<>>
    ELSE IF Head(ms).id # id THEN <<Head(ms)>> \o RetainOtherIdsAboveLast(Tail(ms), id)
    ELSE RetainOtherIdsAboveLast(Tail(ms), id)

\* mounts.retain(|m| m.id() != id)
RECURSIVE RetainOtherIds(_, _)
RetainOtherIds(ms, id) ==
    IF ms = <<>> THEN <<>>
    ELSE IF Head(ms).id # id THEN <<Head(ms)>> \o RetainOtherIds(Tail(ms), id)
    ELSE RetainOtherIds(Tail(ms), id)

\* all_nodes.entry(name).or_insert(node) for the nodes of one listing, in order
RECURSIVE InsertNodes(_, _)
InsertNodes(all_nodes, nodes) ==
    IF nodes = <<>> THEN all_nodes
    ELSE LET node == Head(nodes)
         IN  InsertNodes(IF node.name \in DOMAIN all_nodes THEN all_nodes
                         ELSE MapPut(all_nodes, node.name, node),
                         Tail(nodes))

\* the loop of VfsTree::list_directory over the mounts: the map it builds
RECURSIVE MergeListings(_, _, _)
MergeListings(ms, path, all_nodes) ==
    IF ms = <<>> THEN all_nodes
    ELSE LET listed == MountListDirectory(Head(ms), path)
         IN  MergeListings(Tail(ms), path,
                           IF listed.ok THEN InsertNodes(all_nodes, listed.nodes) ELSE all_nodes)

\* VfsTree::list_directory: the nodes returned (a HashMap's values: no order)
TreeListDirectory(ms, pieces) ==
    LET normalized == NormalizePath(pieces)
        found_any == \E i \in 1..Len(ms) : MountListDirectory(ms[i], normalized).ok
        all_nodes == MergeListings(ms, normalized, EmptyMap)
    IN  IF found_any THEN [ok |-> TRUE, err |-> None,
                           nodes |-> {all_nodes[n] : n \in DOMAIN all_nodes}]
        ELSE [ok |-> FALSE, err |-> "PathNotFound", nodes |-> {}]

MountIds == 1..2
Priorities == {0, 5}
Listings == {<<>>, <<"x">>, <<"y", "x">>}

TreeMountObjects ==
    {[id |-> i, priority |-> p, files |-> f] : i \in MountIds, p \in Priorities, f \in Listings}

\* "/Data/", "Data/x/../.", "Other"
ListedPaths == {<<"", "Data", "">>, <<"Data", "x", "..", ".">>, <<"Other">>}

NoTreeCall == [op |-> "none", arg |-> <<>>, ok |-> FALSE, nodes |-> {}]

TreeInit ==
    /\ treeMounts = <<>>
    /\ treeCache = EmptyMap
    /\ treeLast = NoTreeCall

\* VfsTree::add_mount
AddMount(m) ==
    /\ Len(treeMounts) < MaxMounts
    /\ treeMounts' = SortByPriority(Append(treeMounts, m))
    /\ treeCache' = MapPut(treeCache, m.id, m)
    /\ treeLast' = [op |-> "add_mount", arg |-> <<m.id>>, ok |-> TRUE, nodes |-> {}]
    /\ UNCHANGED <<cacheVars, vfsVars, extractVars, lazyVars, restVars>>

\* VfsTree::remove_mount
RemoveMount(id) ==
    LET kept == RetainOtherIds(treeMounts, id)
    IN  /\ treeMounts' = kept
        /\ treeCache' = IF Len(kept) < Len(treeMounts) THEN MapRemove(treeCache, id)
                        ELSE treeCache
        /\ treeLast' = [op |-> "remove_mount", arg |-> <<id>>,
                        ok |-> Len(kept) < Len(treeMounts), nodes |-> {}]
        /\ UNCHANGED <<cacheVars, vfsVars, extractVars, lazyVars, restVars>>

\* VfsTree::list_directory
ListDirectory(pieces) ==
    /\ LET r == TreeListDirectory(treeMounts, pieces)
       IN  treeLast' = [op |-> "list_directory", arg |-> pieces, ok |-> r.ok, nodes |-> r.nodes]
    /\ UNCHANGED <<treeMounts, treeCache, cacheVars, vfsVars, extractVars, lazyVars, restVars>>

TreeNext ==
    \/ \E m \in TreeMountObjects : AddMount(m)
    \/ \E id \in MountIds : RemoveMount(id)
    \/ \E pieces \in ListedPaths : ListDirectory(pieces)

(***************************************************************************)
(* LazyRecord (parsers/dcb/records.rs) and the loader LazyDataCore gives   *)
(* it (parsers/dcb/datacore.rs). One caller at a time.                     *)
(***************************************************************************)
MaxLoads == 4

\* Option<HashMap<String, RecordValue>>
NotLoaded == [some |-> FALSE, map |-> EmptyMap]
Loaded(map) == [some |-> TRUE, map |-> map]

\* reader.read_exact of n bytes at position pos (bytes already consumed)
ReadExact(file, pos, n) ==
    IF pos + n <= Len(file) THEN [ok |-> TRUE, buf |-> SubSeq(file, pos + 1, pos + n)]
    ELSE [ok |-> FALSE, buf |-> <<>>]

\* i32::from_le_bytes
I32FromLe(buf) ==
    buf[1] + 256 * buf[2] + 65536 * buf[3]
        + 16777216 * (IF buf[4] >= 128 THEN buf[4] - 256 ELSE buf[4])

\* u32::from_le_bytes (the files keep every u32 below 2^31)
U32FromLe(buf) == buf[1] + 256 * buf[2] + 65536 * buf[3] + 16777216 * buf[4]

\* DataType: the variant and, for Unknown, the type id it carries
DataType(kind) == [kind |-> kind, id |-> 0]
UnknownType(type_id) == [kind |-> "Unknown", id |-> type_id]

\* StringTable::get_by_offset(..).cloned().unwrap_or_default()
StringAt(strings, offset) == IF offset \in DOMAIN strings THEN strings[offset] ELSE <<>>

\* a value is kept as a tuple of numbers: a string as its bytes, an f32 as the u32
\* of its bytes, a 64-bit value as <<low, high>>
Floats(buf, k) == [j \in 1..k |-> U32FromLe(SubSeq(buf, 4 * j - 3, 4 * j))]

\* LazyDataCore::read_value: the number of bytes its arm reads
LazyWidth(data_type) ==
    CASE data_type.kind = "Boolean" -> 1
      [] data_type.kind \in {"Int32", "UInt32", "Float", "String"} -> 4
      [] data_type.kind \in {"Int64", "UInt64", "Double"} -> 8
      [] data_type.kind = "Vec3" -> 12
      [] data_type.kind = "Vec4" -> 16
      [] OTHER -> 0

\* LazyDataCore::read_value: the value its arm builds from the bytes read
LazyValue(data_type, buf, strings) ==
    CASE data_type.kind = "Boolean" -> [tag |-> "Boolean", v |-> <<IF buf[1] # 0 THEN 1 ELSE 0>>]
      [] data_type.kind = "Int32" -> [tag |-> "Int32", v |-> <<I32FromLe(buf)>>]
      [] data_type.kind = "Int64" ->
            [tag |-> "Int64", v |-> <<U32FromLe(buf), I32FromLe(SubSeq(buf, 5, 8))>>]
      [] data_type.kind = "UInt32" -> [tag |-> "UInt32", v |-> <<U32FromLe(buf)>>]
      [] data_type.kind = "UInt64" -> [tag |-> "UInt64", v |-> Floats(buf, 2)]
      [] data_type.kind = "Float" -> [tag |-> "Float", v |-> <<U32FromLe(buf)>>]
      [] data_type.kind = "Double" -> [tag |-> "Double", v |-> Floats(buf, 2)]
      [] data_type.kind = "String" -> [tag |-> "String", v |-> StringAt(strings, U32FromLe(buf))]
      [] data_type.kind = "Vec3" -> [tag |-> "Vec3", v |-> Floats(buf, 3)]
      [] data_type.kind = "Vec4" -> [tag |-> "Vec4", v |-> Floats(buf, 4)]
      [] OTHER -> [tag |-> "Unknown", v |-> <<0>>]

ValueRead(r, pos, data_type, strings) ==
    IF r.ok THEN [ok |-> TRUE, pos |-> pos + Len(r.buf), value |-> LazyValue(data_type, r.buf, strings)]
    ELSE [ok |-> FALSE, pos |-> pos, value |-> [tag |-> "Unknown", v |-> <<0>>]]

\* LazyDataCore::read_value: the value and the position after it
ReadValue(file, pos, data_type, strings) ==
    ValueRead(ReadExact(file, pos, LazyWidth(data_type)), pos, data_type, strings)

\* the property loop of load_record_values, indices i..end-1 counted from 0
RECURSIVE ReadProperties(_, _, _, _, _)
ReadProperties(db, i, end, pos, values) ==
    IF i >= end THEN [ok |-> TRUE, err |-> None, values |-> values]
    ELSE IF i >= Len(db.properties) THEN ReadProperties(db, i + 1, end, pos, values)
    ELSE LET prop == db.properties[i + 1]
             r == ReadValue(db.file, pos, prop.data_type, db.strings)
         IN  IF ~r.ok THEN [ok |-> FALSE, err |-> "Io", values |-> EmptyMap]
             ELSE ReadProperties(db, i + 1, end, r.pos, MapPut(values, prop.name, r.value))

\* LazyDataCore::load_record_values
LoadRecordValues(db, offset, struct_id) ==
    IF ~db.handle THEN [ok |-> FALSE, err |-> "InvalidStructure", values |-> EmptyMap]
    ELSE IF struct_id >= Len(db.structs)
    THEN [ok |-> FALSE, err |-> "InvalidStructure", values |-> EmptyMap]
    ELSE LET struct_def == db.structs[struct_id + 1]
             start == struct_def.property_start
         IN  ReadProperties(db, start, start + struct_def.property_count, offset, EmptyMap)

\* LazyRecord::is_loaded
IsLoaded(values) == values.some

\* ensure_loaded running the loader whether or not values are cached
EnsureLoadedReload(values, loaded) ==
    IF loaded.ok THEN [values |-> Loaded(loaded.values), ok |-> TRUE, err |-> None, ran |-> TRUE]
    ELSE [values |-> values, ok |-> FALSE, err |-> loaded.err, ran |-> TRUE]

\* ensure_loaded storing whatever the loader produced, failed or not
EnsureLoadedStoreFailed(values, loaded) ==
    IF ~values.some
    THEN [values |-> Loaded(loaded.values), ok |-> loaded.ok, err |-> loaded.err, ran |-> TRUE]
    ELSE [values |-> values, ok |-> TRUE, err |-> None, ran |-> FALSE]

\* LazyRecord::ensure_loaded; loaded is what the loader returns if it is run
EnsureLoaded(values, loaded) ==
    IF ~values.some
    THEN IF loaded.ok
         THEN [values |-> Loaded(loaded.values), ok |-> TRUE, err |-> None, ran |-> TRUE]
         ELSE [values |-> values, ok |-> FALSE, err |-> loaded.err, ran |-> TRUE]
    ELSE [values |-> values, ok |-> TRUE, err |-> None, ran |-> FALSE]

\* LazyRecord::unload
Unloaded(values) == NotLoaded

Properties ==
    <<[name |-> "flag", data_type |-> DataType("Boolean")],
      [name |-> "count", data_type |-> DataType("Int32")],
      [name |-> "ref", data_type |-> DataType("Reference")]>>

\* the third struct's property range runs past the property table
Structs ==
    <<[property_start |-> 0, property_count |-> 2], [property_start |-> 1, property_count |-> 2],
      [property_start |-> 2, property_count |-> 2]>>

Files == {<<1, 5, 0, 0, 0>>, <<0, 255, 255, 255, 255, 1>>}

LazyDbs ==
    {[handle |-> h, file |-> f, strings |-> <<>>, structs |-> Structs, properties |-> Properties,
      record |-> [struct_id |-> sid, file_offset |-> off]] :
        h \in BOOLEAN, f \in Files, sid \in 0..Len(Structs), off \in {0, 1, 4}}

NoLazyCall == [op |-> "none", ok |-> FALSE, err |-> None, values |-> EmptyMap]

\* no caller is inside the record
NoLocal == [i |-> 0, end |-> 0, pos |-> 0, values |-> EmptyMap]
NoSeen == [op |-> None, ok |-> FALSE, err |-> None, cell |-> NotLoaded]

LazyConcInit ==
    /\ lzLock = 0
    /\ lzPc = [t \in Threads |-> "idle"]
    /\ lzLocal = [t \in Threads |-> NoLocal]
    /\ lzSeen = [t \in Threads |-> NoSeen]

LazyInit ==
    /\ lazyDb \in LazyDbs
    /\ recValues = NotLoaded
    /\ loads = 0
    /\ decodes = 0
    /\ lazyLast = NoLazyCall
    /\ LazyConcInit

LazyIdle ==
    /\ lazyDb = CHOOSE db \in LazyDbs : TRUE
    /\ recValues = NotLoaded
    /\ loads = 0
    /\ decodes = 0
    /\ lazyLast = NoLazyCall
    /\ LazyConcInit

\* LazyDataCore::load_record -> LazyRecord::values
LoadRecord ==
    /\ loads < MaxLoads
    /\ LET e == EnsureLoaded(recValues, LoadRecordValues(lazyDb, lazyDb.record.file_offset,
                                                         lazyDb.record.struct_id))
       IN  /\ recValues' = e.values
           /\ decodes' = IF e.ran THEN decodes + 1 ELSE decodes
           /\ lazyLast' = [op |-> "load_record", ok |-> e.ok, err |-> e.err,
                           values |-> IF e.ok THEN e.values.map ELSE EmptyMap]
    /\ loads' = loads + 1
    /\ UNCHANGED <<lazyDb, cacheVars, vfsVars, extractVars, treeVars, restVars>>

\* LazyRecord::unload
Unload ==
    /\ recValues' = Unloaded(recValues)
    /\ lazyLast' = [op |-> "unload", ok |-> TRUE, err |-> None, values |-> EmptyMap]
    /\ UNCHANGED <<lazyDb, loads, decodes, cacheVars, vfsVars, extractVars, treeVars, restVars>>

\* LazyRecord::is_loaded
IsLoadedCall ==
    /\ lazyLast' = [op |-> "is_loaded", ok |-> IsLoaded(recValues), err |-> None,
                    values |-> EmptyMap]
    /\ UNCHANGED <<lazyDb, recValues, loads, decodes, cacheVars, vfsVars, extractVars, treeVars, restVars>>

LazyNext == LoadRecord \/ Unload \/ IsLoadedCall

(***************************************************************************)
(* LazyRecord used by several threads: values is an RwLock around the      *)
(* value cache. ensure_loaded holds the lock for writing from the test of  *)
(* the cache to the store of the loader's result; get, values and          *)
(* is_loaded read the cache under the lock held for reading; unload stores *)
(* None under the lock held for writing. A thread that only reads or only  *)
(* stores holds the lock for one step.                                     *)
(***************************************************************************)
MaxLazyCalls == 3

LazyOps == {"get", "values"}

\* load_record_values up to its property loop: file handle and struct lookup
LoaderStart(db) ==
    IF ~db.handle THEN [ok |-> FALSE, local |-> NoLocal]
    ELSE IF db.record.struct_id >= Len(db.structs) THEN [ok |-> FALSE, local |-> NoLocal]
    ELSE LET struct_def == db.structs[db.record.struct_id + 1]
         IN  [ok |-> TRUE,
              local |-> [i |-> struct_def.property_start,
                         end |-> struct_def.property_start + struct_def.property_count,
                         pos |-> db.record.file_offset, values |-> EmptyMap]]

\* one round of the property loop of load_record_values
LoaderStep(db, l) ==
    IF l.i >= Len(db.properties) THEN [ok |-> TRUE, local |-> [l EXCEPT !.i = l.i + 1]]
    ELSE LET prop == db.properties[l.i + 1]
             r == ReadValue(db.file, l.pos, prop.data_type, db.strings)
         IN  IF ~r.ok THEN [ok |-> FALSE, local |-> l]
             ELSE [ok |-> TRUE,
                   local |-> [i |-> l.i + 1, end |-> l.end, pos |-> r.pos,
                              values |-> MapPut(l.values, prop.name, r.value)]]

\* the loader filling the value cache itself, one property at a time
CellDuringLoadInPlace(cell, local) == Loaded(local.values)

\* the value cache while the loader runs: the loader fills a map of its own
CellDuringLoad(cell, local) == cell

\* get / values called: the thread goes for the lock of ensure_loaded
LzCall(t, op) ==
    /\ lzPc[t] = "idle"
    /\ loads < MaxLazyCalls
    /\ loads' = loads + 1
    /\ lzPc' = [lzPc EXCEPT ![t] = "ensure"]
    /\ lzSeen' = [lzSeen EXCEPT ![t] = [NoSeen EXCEPT !.op = op]]
    /\ UNCHANGED <<notLazyVars, lazyDb, recValues, decodes, lazyLast, lzLock, lzLocal>>

\* ensure_loaded finds the cache loaded: Ok(()) and the lock is released
LzEnsureCached(t) ==
    /\ lzPc[t] = "ensure"
    /\ lzLock = 0
    /\ recValues.some
    /\ lzPc' = [lzPc EXCEPT ![t] = "read"]
    /\ UNCHANGED <<notLazyVars, lazyDb, recValues, loads, decodes, lazyLast, lzLock, lzLocal, lzSeen>>

\* ensure_loaded finds the cache empty and starts the loader, holding the lock
LzEnsureStart(t) ==
    /\ lzPc[t] = "ensure"
    /\ lzLock = 0
    /\ ~recValues.some
    /\ lzLock' = t
    /\ decodes' = decodes + 1
    /\ LET s == LoaderStart(lazyDb)
       IN  /\ lzLocal' = [lzLocal EXCEPT ![t] = s.local]
           /\ lzPc' = [lzPc EXCEPT ![t] = IF s.ok THEN "loading" ELSE "failed"]
    /\ UNCHANGED <<notLazyVars, lazyDb, recValues, loads, lazyLast, lzSeen>>

\* the loader decodes one property
LzLoadStep(t) ==
    /\ lzPc[t] = "loading"
    /\ lzLocal[t].i < lzLocal[t].end
    /\ LET s == LoaderStep(lazyDb, lzLocal[t])
       IN  /\ lzLocal' = [lzLocal EXCEPT ![t] = s.local]
           /\ lzPc' = [lzPc EXCEPT ![t] = IF s.ok THEN "loading" ELSE "failed"]
           /\ recValues' = CellDuringLoad(recValues, s.local)
    /\ UNCHANGED <<notLazyVars, lazyDb, loads, decodes, lazyLast, lzLock, lzSeen>>

\* the loader returned Ok(values): *values = Some(values), the lock is released
LzStore(t) ==
    /\ lzPc[t] = "loading"
    /\ lzLocal[t].i >= lzLocal[t].end
    /\ recValues' = Loaded(lzLocal[t].values)
    /\ lzLock' = 0
    /\ lzLocal' = [lzLocal EXCEPT ![t] = NoLocal]
    /\ lzPc' = [lzPc EXCEPT ![t] = "read"]
    /\ UNCHANGED <<notLazyVars, lazyDb, loads, decodes, lazyLast, lzSeen>>

\* the loader returned Err: `?` leaves ensure_loaded and the caller with it
LzFail(t) ==
    /\ lzPc[t] = "failed"
    /\ lzLock' = 0
    /\ lzLocal' = [lzLocal EXCEPT ![t] = NoLocal]
    /\ lzPc' = [lzPc EXCEPT ![t] = "idle"]
    /\ lzSeen' = [lzSeen EXCEPT ![t] = [lzSeen[t] EXCEPT !.err = "Err"]]
    /\ UNCHANGED <<notLazyVars, lazyDb, recValues, loads, decodes, lazyLast>>

\* self.values.read() after ensure_loaded: get clones a value out of the
\* cache if there is one, values unwraps the cache
LzRead(t) ==
    /\ lzPc[t] = "read"
    /\ lzLock = 0
    /\ LET op == lzSeen[t].op
       IN  lzSeen' = [lzSeen EXCEPT ![t] =
                        [op |-> op, cell |-> recValues,
                         ok |-> (op = "get" \/ recValues.some),
                         err |-> IF op = "values" /\ ~recValues.some THEN "panic" ELSE None]]
    /\ lzPc' = [lzPc EXCEPT ![t] = "idle"]
    /\ UNCHANGED <<notLazyVars, lazyDb, recValues, loads, decodes, lazyLast, lzLock, lzLocal>>

\* LazyRecord::is_loaded
LzIsLoaded(t) ==
    /\ lzPc[t] = "idle"
    /\ lzLock = 0
    /\ lzSeen' = [lzSeen EXCEPT ![t] =
                    [op |-> "is_loaded", ok |-> IsLoaded(recValues), err |-> None,
                     cell |-> recValues]]
    /\ UNCHANGED <<notLazyVars, lazyDb, recValues, loads, decodes, lazyLast, lzLock, lzPc, lzLocal>>

\* LazyRecord::unload
LzUnload(t) ==
    /\ lzPc[t] = "idle"
    /\ lzLock = 0
    /\ recValues.some
    /\ recValues' = Unloaded(recValues)
    /\ lzSeen' = [lzSeen EXCEPT ![t] = [NoSeen EXCEPT !.op = "unload", !.ok = TRUE]]
    /\ UNCHANGED <<notLazyVars, lazyDb, loads, decodes, lazyLast, lzLock, lzPc, lzLocal>>

LazyConcNext ==
    \E t \in Threads :
            \/ \E op \in LazyOps : LzCall(t, op)
            \/ LzEnsureCached(t)
            \/ LzEnsureStart(t)
            \/ LzLoadStep(t)
            \/ LzStore(t)
            \/ LzFail(t)
            \/ LzRead(t)
            \/ LzIsLoaded(t)
            \/ LzUnload(t)

(***************************************************************************)
(* CgfParser (parsers/cgf/mod.rs) on a geometry file given as bytes. An    *)
(* f32 is kept as the u32 of its four bytes. Files hold Mesh,              *)
(* CompiledBones, CompiledMesh, BoneAnim and unknown chunks.               *)
(***************************************************************************)
\* the k little-endian u32 of the bytes r read from position pos
WordsOf(r, pos, k) ==
    IF ~r.ok THEN [ok |-> FALSE, pos |-> pos, words |-> <<>>]
    ELSE [ok |-> TRUE, pos |-> pos + 4 * k,
          words |-> [i \in 1..k |-> U32FromLe(SubSeq(r.buf, 4 * i - 3, 4 * i))]]

\* k consecutive little-endian u32 read with read_exact from position pos
ReadU32s(file, pos, k) == WordsOf(ReadExact(file, pos, 4 * k), pos, k)

CRYTEK_MAGIC == <<67, 114, 121, 84, 101, 107, 0, 0>>
IVO_MAGIC == <<35, 105, 118, 111>>
CRCH_MAGIC == <<67, 114, 67, 104>>

\* ChunkType::from_u32
ChunkTypeFromU32(value) ==
    CASE value = 4096 -> "Mesh"
      [] value = 4097 -> "MeshSubsets"
      [] value = 4118 -> "BoneAnim"
      [] value = 4119 -> "BoneNameList"
      [] value = 4129 -> "CompiledBones"
      [] value = 4132 -> "CompiledMesh"
      [] OTHER -> "Unknown"

\* parse_header after the version is known: chunk count and chunk table offset
HeaderRest(version, r) ==
    IF ~r.ok THEN [ok |-> FALSE, err |-> "Io"]
    ELSE [ok |-> TRUE, err |-> None, version |-> version,
          chunk_count |-> r.words[1], chunk_table_offset |-> r.words[2]]

\* parse_header after the 8 magic bytes m
HeaderAfterMagic(file, m) ==
    IF ~m.ok THEN [ok |-> FALSE, err |-> "Io"]
    ELSE IF m.buf = CRYTEK_MAGIC
    THEN IF ~ReadExact(file, 8, 8).ok THEN [ok |-> FALSE, err |-> "Io"]
         ELSE HeaderRest("Legacy", ReadU32s(file, 16, 2))
    ELSE IF SubSeq(m.buf, 1, 4) = IVO_MAGIC THEN HeaderRest("Ivo", ReadU32s(file, 8, 2))
    ELSE IF SubSeq(m.buf, 1, 4) = CRCH_MAGIC THEN HeaderRest("CrCh", ReadU32s(file, 8, 2))
    ELSE [ok |-> FALSE, err |-> "InvalidMagic"]

\* CgfParser::parse_header
ParseHeader(file) == HeaderAfterMagic(file, ReadExact(file, 0, 8))

\* the bytes of a chunk table entry: 16, and 4 more for the size unless Legacy
ChunkHeaderLen(version) == IF version = "Legacy" THEN 16 ELSE 20

\* parse_chunk_header on the words w of an entry
ChunkHeaderOf(w, version) ==
    IF ~w.ok THEN [ok |-> FALSE, pos |-> w.pos]
    ELSE [ok |-> TRUE, pos |-> w.pos,
          header |-> [chunk_type |-> ChunkTypeFromU32(w.words[1]), version |-> w.words[2],
                      offset |-> w.words[3], id |-> w.words[4],
                      size |-> IF version = "Legacy" THEN 0 ELSE w.words[5]]]

\* CgfParser::parse_chunk_header at position pos
ParseChunkHeader(file, pos, version) ==
    ChunkHeaderOf(ReadU32s(file, pos, ChunkHeaderLen(version) \div 4), version)

\* CgfParser::parse_chunk_table: count chunk headers from position pos on
ParseChunkTable(file, pos, count, version) ==
    IF \A i \in 1..count :
            ParseChunkHeader(file, pos + (i - 1) * ChunkHeaderLen(version), version).ok
    THEN [ok |-> TRUE,
          chunks |-> [i \in 1..count |->
                        ParseChunkHeader(file, pos + (i - 1) * ChunkHeaderLen(version),
                                         version).header]]
    ELSE [ok |-> FALSE, chunks |-> <<>>]

\* [0.0, 1.0, 0.0] and [0.0, 0.0] as f32 bit patterns
DefaultNormal == <<0, 1065353216, 0>>
DefaultUv == <<0, 0>>

\* parse_mesh_chunk after the header: d holds positions, normals, uvs, faces
MeshFromWords(vert_count, face_count, d) ==
    IF ~d.ok THEN [ok |-> FALSE, err |-> "Io"]
    ELSE [ok |-> TRUE, err |-> None,
          mesh |-> [name |-> <<>>,
                    vertices |-> [i \in 1..vert_count |->
                                    [position |-> SubSeq(d.words, 3 * i - 2, 3 * i),
                                     normal |-> SubSeq(d.words, 3 * vert_count + 3 * i - 2,
                                                       3 * vert_count + 3 * i),
                                     uv |-> <<SubSeq(d.words, 6 * vert_count + 2 * i - 1,
                                                     6 * vert_count + 2 * i)>>,
                                     color |-> <<>>, bone_weights |-> <<>>,
                                     bone_indices |-> <<>>]],
                    faces |-> [i \in 1..face_count |->
                                    [indices |-> SubSeq(d.words, 8 * vert_count + 3 * i - 2,
                                                        8 * vert_count + 3 * i),
                                     material_id |-> 0, smoothing_group |-> 0]],
                    subsets |-> <<>>]]

\* parse_mesh_chunk after the 48 bytes of the mesh header h
MeshFromHeader(file, h) ==
    IF ~h.ok THEN [ok |-> FALSE, err |-> "Io"]
    ELSE MeshFromWords(h.words[2], h.words[3],
                       ReadU32s(file, h.pos, 8 * h.words[2] + 3 * h.words[3]))

\* CgfParser::parse_mesh_chunk
ParseMeshChunk(file, header) == MeshFromHeader(file, ReadU32s(file, header.offset, 12))

\* trim_end_matches('\0') on the bytes of a name
RECURSIVE TrimEndZeros(_)
TrimEndZeros(bytes) ==
    IF bytes # <<>> /\ bytes[Len(bytes)] = 0
    THEN TrimEndZeros(SubSeq(bytes, 1, Len(bytes) - 1))
    ELSE bytes

\* the bone name loop of parse_compiled_bones_chunk: count names still to read
\* from position pos, acc the names read
RECURSIVE ReadBoneNames(_, _, _, _)
NameAfterBytes(file, count, acc, l, n) ==
    IF ~n.ok THEN [ok |-> FALSE, pos |-> l.pos, names |-> <<>>]
    ELSE ReadBoneNames(file, l.pos + l.words[1], count - 1, Append(acc, TrimEndZeros(n.buf)))

NameAfterLen(file, count, acc, l) ==
    IF ~l.ok THEN [ok |-> FALSE, pos |-> l.pos, names |-> <<>>]
    ELSE NameAfterBytes(file, count, acc, l, ReadExact(file, l.pos, l.words[1]))

ReadBoneNames(file, pos, count, acc) ==
    IF count = 0 THEN [ok |-> TRUE, pos |-> pos, names |-> acc]
    ELSE NameAfterLen(file, count, acc, ReadU32s(file, pos, 1))

\* Option<usize>
NoIndex == [some |-> FALSE, index |-> 0]
SomeIndex(i) == [some |-> TRUE, index |-> i]

\* the transpose the decoder stores as inverse bind pose, on 16 row-major words
Transpose(m) == [i \in 1..16 |-> m[((i - 1) % 4) * 4 + ((i - 1) \div 4) + 1]]

\* the bone written in the 136 bytes b: parent index, controller id, two matrices
BoneOf(name, b) ==
    [name |-> name,
     parent_index |-> IF I32FromLe(SubSeq(b, 1, 4)) < 0 THEN NoIndex
                      ELSE SomeIndex(I32FromLe(SubSeq(b, 1, 4))),
     controller_id |-> U32FromLe(SubSeq(b, 5, 8)),
     local_transform |-> [i \in 1..16 |-> U32FromLe(SubSeq(b, 4 * i + 5, 4 * i + 8))],
     bind_pose |-> [i \in 1..16 |-> U32FromLe(SubSeq(b, 4 * i + 69, 4 * i + 72))],
     inverse_bind_pose |->
        Transpose([i \in 1..16 |-> U32FromLe(SubSeq(b, 4 * i + 69, 4 * i + 72))])]

\* Skeleton::build_hierarchy: the indices (from 0) of the bones without parent
RECURSIVE RootBones(_, _)
RootBones(bones, n) ==
    IF n = 0 THEN <<>>
    ELSE IF bones[n].parent_index.some THEN RootBones(bones, n - 1)
    ELSE Append(RootBones(bones, n - 1), n - 1)

\* Skeleton::add_bone for every bone, then build_hierarchy
SkeletonOf(bones) ==
    [bones |-> bones,
     bone_map |-> [name \in {bones[i].name : i \in 1..Len(bones)} |->
                    CHOOSE i \in 0..(Len(bones) - 1) :
                        /\ bones[i + 1].name = name
                        /\ \A j \in (i + 2)..Len(bones) : bones[j].name # name],
     root_bones |-> RootBones(bones, Len(bones))]

\* the bone data loop of parse_compiled_bones_chunk on the bytes d of the bones
BonesFrom(names, d) ==
    IF ~names.ok \/ ~d.ok THEN [ok |-> FALSE, err |-> "Io"]
    ELSE [ok |-> TRUE, err |-> None,
          skeleton |-> SkeletonOf([i \in 1..Len(names.names) |->
                                    BoneOf(names.names[i],
                                           SubSeq(d.buf, 136 * i - 135, 136 * i))])]

\* parse_compiled_bones_chunk after the names
BonesAfterNames(file, names) ==
    BonesFrom(names, ReadExact(file, names.pos, 136 * Len(names.names)))

\* parse_compiled_bones_chunk after the bone count c
BonesAfterCount(file, c) ==
    IF ~c.ok THEN [ok |-> FALSE, err |-> "Io"]
    ELSE BonesAfterNames(file, ReadBoneNames(file, c.pos, c.words[1], <<>>))

\* CgfParser::parse_compiled_bones_chunk
ParseCompiledBonesChunk(file, header) ==
    BonesAfterCount(file, ReadU32s(file, header.offset, 1))

\* Skeleton::validate
SkeletonValidate(skeleton) ==
    \A i \in 1..Len(skeleton.bones) :
        skeleton.bones[i].parent_index.some
            => /\ skeleton.bones[i].parent_index.index < Len(skeleton.bones)
               /\ skeleton.bones[i].parent_index.index # i - 1

\* the while loop of bone_chain_to_root with the chain built and the bone
\* reached. A round depends on the bone reached alone, so the loop that reaches
\* a bone of the chain again goes round for ever and the call does not return.
RECURSIVE ChainFrom(_, _, _)
ChainFrom(bones, chain, current) ==
    IF current >= Len(bones) THEN [returns |-> TRUE, chain |-> chain]
    ELSE IF ~bones[current + 1].parent_index.some THEN [returns |-> TRUE, chain |-> chain]
    ELSE LET parent == bones[current + 1].parent_index.index
         IN  IF \E k \in 1..Len(chain) : chain[k] = parent
             THEN [returns |-> FALSE, chain |-> Append(chain, parent)]
             ELSE ChainFrom(bones, Append(chain, parent), parent)

\* Skeleton::bone_chain_to_root
BoneChainToRoot(skeleton, bone_index) ==
    ChainFrom(skeleton.bones, <<bone_index>>, bone_index)

\* u16::from_le_bytes(..).min(255) as u8
BoneIndexFromLe(lo, hi) == IF lo + 256 * hi > 255 THEN 255 ELSE lo + 256 * hi

\* a skin record g of 8 words: four weights, four u16 bone indices, 8 bytes unused
SkinWeights(g) == SubSeq(g, 1, 4)
SkinIndices(g) ==
    <<BoneIndexFromLe(g[5] % 256, (g[5] \div 256) % 256),
      BoneIndexFromLe((g[5] \div 65536) % 256, g[5] \div 16777216),
      BoneIndexFromLe(g[6] % 256, (g[6] \div 256) % 256),
      BoneIndexFromLe((g[6] \div 65536) % 256, g[6] \div 16777216)>>

\* a sequence of words cut into consecutive groups of k
Groups(words, k) == [i \in 1..(Len(words) \div k) |-> SubSeq(words, (i - 1) * k + 1, i * k)]

NoStreams ==
    [positions |-> <<>>, normals |-> <<>>, uvs |-> <<>>, colors |-> <<>>,
     bone_weights |-> <<>>, bone_indices |-> <<>>]

\* the words one vertex takes in a stream of the type, 0 for a stream skipped
StreamWords(stream_type) ==
    CASE stream_type \in {0, 1} -> 3
      [] stream_type = 2 -> 2
      [] stream_type = 3 -> 1
      [] stream_type = 12 -> 8
      [] OTHER -> 0

\* the stream's items pushed on the lists read so far
PushStream(acc, stream_type, g) ==
    CASE stream_type = 0 -> [acc EXCEPT !.positions = @ \o g]
      [] stream_type = 1 -> [acc EXCEPT !.normals = @ \o g]
      [] stream_type = 2 -> [acc EXCEPT !.uvs = @ \o g]
      [] stream_type = 3 -> [acc EXCEPT !.colors = @ \o g]
      [] OTHER -> [acc EXCEPT !.bone_weights = @ \o [i \in 1..Len(g) |-> SkinWeights(g[i])],
                              !.bone_indices = @ \o [i \in 1..Len(g) |-> SkinIndices(g[i])]]

\* the vertex stream loop of parse_compiled_mesh_chunk: count streams still to
\* read from position pos, acc the lists read
RECURSIVE ReadStreams(_, _, _, _, _)
StreamAfterData(file, count, vert_count, acc, stream_type, d) ==
    IF ~d.ok THEN [ok |-> FALSE, pos |-> d.pos, streams |-> acc]
    ELSE ReadStreams(file, d.pos, count - 1, vert_count,
                     PushStream(acc, stream_type, Groups(d.words, StreamWords(stream_type))))

StreamAfterHeader(file, count, vert_count, acc, h) ==
    IF ~h.ok THEN [ok |-> FALSE, pos |-> h.pos, streams |-> acc]
    ELSE IF StreamWords(h.words[1]) = 0
    THEN ReadStreams(file, h.pos + h.words[2], count - 1, vert_count, acc)
    ELSE StreamAfterData(file, count, vert_count, acc, h.words[1],
                         ReadU32s(file, h.pos, StreamWords(h.words[1]) * vert_count))

ReadStreams(file, pos, count, vert_count, acc) ==
    IF count = 0 THEN [ok |-> TRUE, pos |-> pos, streams |-> acc]
    ELSE StreamAfterHeader(file, count, vert_count, acc, ReadU32s(file, pos, 2))

\* Vec::get(i).copied() with a default, Option as a sequence of at most one
GetOr(s, i, default) == IF i <= Len(s) THEN s[i] ELSE default
GetOpt(s, i) == IF i <= Len(s) THEN <<s[i]>> ELSE <<>>

\* normals / uvs resized to the vertex count when their stream was missing
OrDefaults(list, vert_count, default) ==
    IF list = <<>> THEN [i \in 1..vert_count |-> default] ELSE list

\* parse_compiled_mesh_chunk after the streams: d holds the faces and the subsets
CompiledMeshFrom(id, vert_count, face_count, subset_count, streams, d) ==
    IF ~d.ok THEN [ok |-> FALSE, err |-> "Io"]
    ELSE [ok |-> TRUE, err |-> None,
          mesh |-> [name |-> <<"CompiledMesh", id>>,
                    vertices |-> [i \in 1..vert_count |->
                        [position |-> GetOr(streams.positions, i, <<0, 0, 0>>),
                         normal |-> GetOr(OrDefaults(streams.normals, vert_count, DefaultNormal),
                                          i, DefaultNormal),
                         uv |-> <<GetOr(OrDefaults(streams.uvs, vert_count, DefaultUv),
                                        i, DefaultUv)>>,
                         color |-> GetOpt(streams.colors, i),
                         bone_weights |-> GetOpt(streams.bone_weights, i),
                         bone_indices |-> GetOpt(streams.bone_indices, i)]],
                    faces |-> [i \in 1..face_count |->
                                [indices |-> SubSeq(d.words, 3 * i - 2, 3 * i),
                                 material_id |-> 0, smoothing_group |-> 0]],
                    subsets |-> [i \in 1..subset_count |->
                                [material_id |-> d.words[3 * face_count + 4 * i - 3],
                                 first_index |-> d.words[3 * face_count + 4 * i - 2],
                                 num_indices |-> d.words[3 * face_count + 4 * i - 1],
                                 first_vertex |-> d.words[3 * face_count + 4 * i],
                                 num_vertices |-> 0]]]]

\* parse_compiled_mesh_chunk after the vertex streams st
CompiledMeshAfterStreams(file, id, h, st) ==
    IF ~st.ok THEN [ok |-> FALSE, err |-> "Io"]
    ELSE CompiledMeshFrom(id, h.words[2], h.words[3] \div 3, h.words[4], st.streams,
                          ReadU32s(file, st.pos, 3 * (h.words[3] \div 3) + 4 * h.words[4]))

\* parse_compiled_mesh_chunk after the 32 bytes of the mesh header h
CompiledMeshAfterHeader(file, id, h) ==
    IF ~h.ok THEN [ok |-> FALSE, err |-> "Io"]
    ELSE CompiledMeshAfterStreams(file, id, h,
                                  ReadStreams(file, h.pos, h.words[5], h.words[2], NoStreams))

\* CgfParser::parse_compiled_mesh_chunk
ParseCompiledMeshChunk(file, header) ==
    CompiledMeshAfterHeader(file, header.id, ReadU32s(file, header.offset, 8))

\* CgfModel::new; the skeleton is an Option, a sequence of at most one
CgfModelNew(version) == [version |-> version, meshes |-> <<>>, skeleton |-> <<>>]

\* the decoder parse_with_options runs on a chunk of the table
DecodeChunk(file, header) ==
    CASE header.chunk_type \in {"Mesh", "MeshSubsets"} -> ParseMeshChunk(file, header)
      [] header.chunk_type = "CompiledBones" -> ParseCompiledBonesChunk(file, header)
      [] header.chunk_type = "CompiledMesh" -> ParseCompiledMeshChunk(file, header)
      [] OTHER -> [ok |-> TRUE, err |-> None]

\* the arms of the match in parse_with_options: what the decoder returned is
\* put in the model `if let Ok`, and left out otherwise
AddChunk(model, chunk_type, r) ==
    CASE chunk_type \in {"Mesh", "MeshSubsets", "CompiledMesh"} ->
            IF r.ok THEN [model EXCEPT !.meshes = Append(@, r.mesh)] ELSE model
      [] chunk_type = "CompiledBones" ->
            IF r.ok THEN [model EXCEPT !.skeleton = <<r.skeleton>>] ELSE model
      [] OTHER -> model

\* the chunk loop of parse_with_options
RECURSIVE ParseChunks(_, _, _, _)
ParseChunks(file, chunks, options, model) ==
    IF chunks = <<>> THEN [ok |-> TRUE, err |-> None, model |-> model]
    ELSE IF Head(chunks).chunk_type = "Unknown" /\ ~options.skip_unknown_chunks
    THEN [ok |-> FALSE, err |-> "UnknownChunkType", model |-> CgfModelNew(None)]
    ELSE ParseChunks(file, Tail(chunks), options,
                     AddChunk(model, Head(chunks).chunk_type, DecodeChunk(file, Head(chunks))))

\* parse_with_options after the chunk table t
ParseAfterTable(file, options, h, t) ==
    IF ~t.ok THEN [ok |-> FALSE, err |-> "Io", model |-> CgfModelNew(None)]
    ELSE ParseChunks(file, t.chunks, options, CgfModelNew(h.version))

\* parse_with_options after the header h
ParseAfterHeader(file, options, h) ==
    IF ~h.ok THEN [ok |-> FALSE, err |-> h.err, model |-> CgfModelNew(None)]
    ELSE ParseAfterTable(file, options, h,
                         ParseChunkTable(file, h.chunk_table_offset, h.chunk_count, h.version))

\* CgfParser::parse_with_options
ParseWithOptions(file, options) == ParseAfterHeader(file, options, ParseHeader(file))

(***************************************************************************)
(* Geometry files: a header, a chunk table and the chunks' data, written   *)
(* the way the decoders above read them.                                   *)
(***************************************************************************)
MaxChunks == 2

\* u32::to_le_bytes, and i32::to_le_bytes of -1
U32Le(n) == <<n % 256, (n \div 256) % 256, (n \div 65536) % 256, n \div 16777216>>
I32Le(n) == IF n < 0 THEN <<255, 255, 255, 255>> ELSE U32Le(n)

RECURSIVE WordsLe(_)
WordsLe(words) == IF words = <<>> THEN <<>> ELSE U32Le(Head(words)) \o WordsLe(Tail(words))

Zeros(k) == [i \in 1..k |-> 0]

\* a Mesh chunk: 48 byte header, positions, normals, uvs, faces
MeshData(vert_count, faces) ==
    WordsLe(<<0, vert_count, Len(faces) \div 3, 0>> \o Zeros(8)
            \o [i \in 1..(3 * vert_count) |-> i] \o Zeros(3 * vert_count)
            \o Zeros(2 * vert_count) \o faces)

\* a CompiledBones chunk: count, names "a\0", then parent, controller, two matrices
RECURSIVE BoneRecords(_)
BoneRecords(parents) ==
    IF parents = <<>> THEN <<>>
    ELSE I32Le(Head(parents)) \o WordsLe(<<7>> \o [i \in 1..32 |-> i]) \o BoneRecords(Tail(parents))

RECURSIVE BoneNames(_)
BoneNames(k) == IF k = 0 THEN <<>> ELSE U32Le(2) \o <<96 + k, 0>> \o BoneNames(k - 1)

BonesData(parents) == U32Le(Len(parents)) \o BoneNames(Len(parents)) \o BoneRecords(parents)

\* a CompiledMesh chunk of one vertex: 32 byte header, a position stream, an
\* unknown stream of 4 bytes, a skin stream, faces, one subset
CompiledMeshData(faces) ==
    WordsLe(<<0, 1, Len(faces), 1, 3, 0, 0, 0>>
            \o <<0, 12, 5, 6, 7>> \o <<9, 4, 0>>
            \o <<12, 32, 1, 0, 0, 0, 65536 + 300, 3, 0, 0>>
            \o faces \o <<2, 0, 3, 0>>)

ChunkSpecs ==
    {[type |-> 4096, data |-> MeshData(2, <<0, 1, 1>>), broken |-> FALSE],
     [type |-> 4096, data |-> MeshData(2, <<0, 1, 1>>), broken |-> TRUE],
     [type |-> 4096, data |-> MeshData(2, <<0, 1, 2>>), broken |-> FALSE],
     [type |-> 4129, data |-> BonesData(<<-1, 0>>), broken |-> FALSE],
     [type |-> 4129, data |-> BonesData(<<-1, 0>>), broken |-> TRUE],
     [type |-> 4129, data |-> BonesData(<<-1, 1>>), broken |-> FALSE],
     [type |-> 4129, data |-> BonesData(<<-1, 5>>), broken |-> FALSE],
     [type |-> 4132, data |-> CompiledMeshData(<<0, 0, 0>>), broken |-> FALSE],
     [type |-> 4132, data |-> CompiledMeshData(<<0, 0, 0>>), broken |-> TRUE],
     [type |-> 4132, data |-> CompiledMeshData(<<0, 1, 0>>), broken |-> FALSE],
     [type |-> 4118, data |-> <<>>, broken |-> FALSE],
     [type |-> 9999, data |-> <<>>, broken |-> FALSE]}

FileKinds == {"CrCh", "Legacy", "BadMagic", "ShortTable"}

RECURSIVE DataLen(_, _)
DataLen(specs, k) == IF k = 0 THEN 0 ELSE Len(specs[k].data) + DataLen(specs, k - 1)

RECURSIVE AllData(_)
AllData(specs) == IF specs = <<>> THEN <<>> ELSE Head(specs).data \o AllData(Tail(specs))

\* the bytes of a file of the kind with the chunks; a broken chunk's table
\* entry points at the end of the file; a ShortTable file ends after a table
\* one entry shorter than its header says
CgfFile(kind, specs) ==
    LET n == Len(specs)
        head_len == IF kind = "Legacy" THEN 24 ELSE 16
        entry_len == IF kind = "Legacy" THEN 16 ELSE 20
        data_start == head_len + n * entry_len
        total == data_start + DataLen(specs, n)
        Entry(i) == WordsLe(<<specs[i].type, 1,
                              IF specs[i].broken THEN total
                              ELSE data_start + DataLen(specs, i - 1), i>>)
                    \o (IF kind = "Legacy" THEN <<>> ELSE U32Le(Len(specs[i].data)))
        Table[i \in 0..n] == IF i = 0 THEN <<>> ELSE Table[i - 1] \o Entry(i)
        magic == CASE kind = "Legacy" -> CRYTEK_MAGIC \o WordsLe(<<0, 1>>)
                   [] kind = "BadMagic" -> <<1, 2, 3, 4>> \o U32Le(1)
                   [] OTHER -> CRCH_MAGIC \o U32Le(1)
        count == IF kind = "ShortTable" THEN n + 1 ELSE n
    IN  magic \o WordsLe(<<count, head_len>>) \o Table[n]
            \o (IF kind = "ShortTable" THEN <<>> ELSE AllData(specs))

RECURSIVE SeqsUpTo(_, _)
SeqsUpTo(S, n) ==
    IF n = 0 THEN {<<>>}
    ELSE SeqsUpTo(S, n - 1) \cup {Append(q, x) : q \in {r \in SeqsUpTo(S, n - 1) : Len(r) = n - 1}, x \in S}

CgfInputs ==
    {[file |-> CgfFile(kind, specs), options |-> [skip_unknown_chunks |-> skip]] :
        kind \in FileKinds, specs \in SeqsUpTo(ChunkSpecs, MaxChunks), skip \in BOOLEAN}

NoCgfResult == [ok |-> FALSE, err |-> None, model |-> CgfModelNew(None), done |-> FALSE]

CgfInit ==
    /\ cgfIn \in CgfInputs
    /\ cgfLast = NoCgfResult

CgfIdle ==
    /\ cgfIn = [file |-> <<>>, options |-> [skip_unknown_chunks |-> TRUE]]
    /\ cgfLast = NoCgfResult

\* CgfParser::parse_with_options on the file
CgfParse ==
    /\ ~cgfLast.done
    /\ LET r == ParseWithOptions(cgfIn.file, cgfIn.options)
       IN  cgfLast' = [ok |-> r.ok, err |-> r.err, model |-> r.model, done |-> TRUE]
    /\ UNCHANGED <<cgfIn, notCgfVars>>

CgfNext == CgfParse

(***************************************************************************)
(* DcbParser's record table (parsers/dcb/mod.rs) and the conversion of a   *)
(* lazy database to an eager one (parsers/dcb/datacore.rs). The string,    *)
(* struct and property tables are given as parsed.                         *)
(***************************************************************************)
\* i16::from_le_bytes
I16FromLe(buf) == buf[1] + 256 * (IF buf[2] >= 128 THEN buf[2] - 256 ELSE buf[2])

\* DcbParser::read_value: the number of bytes its arm reads (it has no arm for
\* Vec4 and LocaleString)
EagerWidth(data_type) ==
    CASE data_type.kind \in {"Boolean", "Int8", "UInt8"} -> 1
      [] data_type.kind \in {"Int16", "UInt16"} -> 2
      [] data_type.kind \in {"Int32", "UInt32", "Float", "String", "Enum", "Array"} -> 4
      [] data_type.kind \in {"Int64", "UInt64", "Double", "Reference"} -> 8
      [] data_type.kind = "Vec3" -> 12
      [] data_type.kind = "Guid" -> 16
      [] data_type.kind = "Unknown" -> 0

\* DcbParser::read_value: the value its arm builds from the bytes read
EagerValue(data_type, buf, strings) ==
    CASE data_type.kind = "Boolean" -> [tag |-> "Boolean", v |-> <<IF buf[1] # 0 THEN 1 ELSE 0>>]
      [] data_type.kind = "Int8" ->
            [tag |-> "Int32", v |-> <<IF buf[1] >= 128 THEN buf[1] - 256 ELSE buf[1]>>]
      [] data_type.kind = "Int16" -> [tag |-> "Int32", v |-> <<I16FromLe(buf)>>]
      [] data_type.kind = "Int32" -> [tag |-> "Int32", v |-> <<I32FromLe(buf)>>]
      [] data_type.kind = "Int64" ->
            [tag |-> "Int64", v |-> <<U32FromLe(buf), I32FromLe(SubSeq(buf, 5, 8))>>]
      [] data_type.kind = "UInt8" -> [tag |-> "UInt32", v |-> <<buf[1]>>]
      [] data_type.kind = "UInt16" -> [tag |-> "UInt32", v |-> <<buf[1] + 256 * buf[2]>>]
      [] data_type.kind = "UInt32" -> [tag |-> "UInt32", v |-> <<U32FromLe(buf)>>]
      [] data_type.kind = "UInt64" -> [tag |-> "UInt64", v |-> Floats(buf, 2)]
      [] data_type.kind = "Float" -> [tag |-> "Float", v |-> <<U32FromLe(buf)>>]
      [] data_type.kind = "Double" -> [tag |-> "Double", v |-> Floats(buf, 2)]
      [] data_type.kind = "String" -> [tag |-> "String", v |-> StringAt(strings, U32FromLe(buf))]
      [] data_type.kind = "Guid" -> [tag |-> "Guid", v |-> buf]
      [] data_type.kind = "Reference" ->
            [tag |-> "Reference", v |-> <<U32FromLe(buf), U32FromLe(SubSeq(buf, 5, 8))>>]
      [] data_type.kind = "Vec3" -> [tag |-> "Vec3", v |-> Floats(buf, 3)]
      [] data_type.kind = "Enum" -> [tag |-> "Enum", v |-> <<U32FromLe(buf)>>]
      [] data_type.kind = "Array" -> [tag |-> "Array", v |-> <<>>]
      [] data_type.kind = "Unknown" -> [tag |-> "Unknown", v |-> <<data_type.id>>]

EagerValueRead(r, pos, data_type, strings) ==
    IF r.ok THEN [ok |-> TRUE, pos |-> pos + Len(r.buf), value |-> EagerValue(data_type, r.buf, strings)]
    ELSE [ok |-> FALSE, pos |-> pos, value |-> [tag |-> "Unknown", v |-> <<0>>]]

\* DcbParser::read_value: the value and the position after it
DcbReadValue(file, pos, data_type, strings) ==
    EagerValueRead(ReadExact(file, pos, EagerWidth(data_type)), pos, data_type, strings)

RECURSIVE ValuesFrom(_, _, _, _, _)
ValuesAfterRead(db, i, end, values, r) ==
    IF ~r.ok THEN [ok |-> FALSE, pos |-> r.pos, values |-> EmptyMap]
    ELSE ValuesFrom(db, i + 1, end, r.pos, MapPut(values, db.properties[i + 1].name, r.value))

\* the loop of parse_record_values, property indices i..end-1 counted from 0
ValuesFrom(db, i, end, pos, values) ==
    IF i >= end THEN [ok |-> TRUE, pos |-> pos, values |-> values]
    ELSE IF i >= Len(db.properties) THEN ValuesFrom(db, i + 1, end, pos, values)
    ELSE ValuesAfterRead(db, i, end, values,
                         DcbReadValue(db.file, pos, db.properties[i + 1].data_type, db.strings))

\* DcbParser::parse_record_values
ParseRecordValues(db, pos, struct_def) ==
    ValuesFrom(db, struct_def.property_start,
               struct_def.property_start + struct_def.property_count, pos, EmptyMap)

\* Record
Record(id, struct_id, name, guid, values) ==
    [id |-> id, struct_id |-> struct_id, name |-> name, guid |-> guid, values |-> values]

RECURSIVE RecordsFrom(_, _, _, _, _)
RecordAfterValues(db, i, count, records, h, v) ==
    IF ~v.ok THEN [ok |-> FALSE, err |-> "Io", records |-> <<>>]
    ELSE RecordsFrom(db, i + 1, count, v.pos,
                     Append(records, Record(i, h[1], StringAt(db.strings, h[2]), <<h[3], h[4]>>,
                                            v.values)))

RecordAfterHeader(db, i, count, records, r) ==
    IF ~r.ok THEN [ok |-> FALSE, err |-> "Io", records |-> <<>>]
    ELSE RecordAfterValues(db, i, count, records, r.words,
            IF r.words[1] < Len(db.structs)
            THEN ParseRecordValues(db, r.pos, db.structs[r.words[1] + 1])
            ELSE [ok |-> TRUE, pos |-> r.pos, values |-> EmptyMap])

\* the loop of parse_records, records i..count-1
RecordsFrom(db, i, count, pos, records) ==
    IF i >= count THEN [ok |-> TRUE, err |-> None, records |-> records]
    ELSE RecordAfterHeader(db, i, count, records, ReadU32s(db.file, pos, 4))

\* DcbParser::parse_records
ParseRecords(db) == RecordsFrom(db, 0, db.header.record_count, db.header.record_offset, <<>>)

\* LazyRecord::to_record on a record nobody has loaded yet
ToRecord(l, e) ==
    IF ~e.ok THEN [ok |-> FALSE, err |-> e.err, record |-> Record(l.id, l.struct_id, l.name, l.guid, EmptyMap)]
    ELSE [ok |-> TRUE, err |-> None,
          record |-> Record(l.id, l.struct_id, l.name, l.guid, e.values.map)]

RECURSIVE ToEagerFrom(_, _, _)
ToEagerAfter(db, i, records, r) ==
    IF ~r.ok THEN [ok |-> FALSE, err |-> r.err, records |-> <<>>]
    ELSE ToEagerFrom(db, i + 1, Append(records, r.record))

ToEagerFrom(db, i, records) ==
    IF i > Len(db.records) THEN [ok |-> TRUE, err |-> None, records |-> records]
    ELSE ToEagerAfter(db, i, records,
            ToRecord(db.records[i],
                     EnsureLoaded(NotLoaded, LoadRecordValues(db, db.records[i].file_offset,
                                                              db.records[i].struct_id))))

\* LazyDataCore::to_eager
ToEager(db) == ToEagerFrom(db, 1, <<>>)

(***************************************************************************)
(* The record databases parsed: one property of every type the eager       *)
(* reader has an arm for, structs of one or several properties, and up to  *)
(* MaxRecords records. The lazy database holds the same tables and, for    *)
(* each record, the position of its property data in the file.             *)
(***************************************************************************)
MaxRecords == 2

DCB_MAGIC == <<68, 67, 66, 49>>

DcbKinds ==
    <<"Boolean", "Int8", "Int16", "Int32", "Int64", "UInt8", "UInt16", "UInt32", "UInt64",
      "Float", "Double", "String", "Guid", "Reference", "Vec3", "Enum", "Array">>

\* property k is named after its type; the last two are of unknown types
DcbProperties ==
    [k \in 1..Len(DcbKinds) |-> [name |-> DcbKinds[k], data_type |-> DataType(DcbKinds[k])]]
        \o <<[name |-> "Unknown19", data_type |-> UnknownType(19)],
             [name |-> "Unknown0", data_type |-> UnknownType(0)]>>

\* one struct per property, then structs of several properties; the last one's
\* property range runs past the property table
DcbStructs ==
    [k \in 1..Len(DcbProperties) |-> [property_start |-> k - 1, property_count |-> 1]]
        \o <<[property_start |-> 0, property_count |-> 0],
             [property_start |-> 0, property_count |-> 3],
             [property_start |-> 9, property_count |-> 3],
             [property_start |-> Len(DcbProperties) - 1, property_count |-> 2]>>

\* "record" and "text"
DcbStrings == (0 :> <<114, 101, 99, 111, 114, 100>>) @@ (67305985 :> <<116, 101, 120, 116>>)

\* the bytes parse_record_values reads for a record of the struct
RECURSIVE EagerSize(_, _)
EagerSize(i, end) ==
    IF i >= end THEN 0
    ELSE IF i >= Len(DcbProperties) THEN EagerSize(i + 1, end)
    ELSE EagerWidth(DcbProperties[i + 1].data_type) + EagerSize(i + 1, end)

StructSize(struct_id) ==
    IF struct_id >= Len(DcbStructs) THEN 0
    ELSE EagerSize(DcbStructs[struct_id + 1].property_start,
                   DcbStructs[struct_id + 1].property_start
                       + DcbStructs[struct_id + 1].property_count)

\* a record of the file: its 16-byte header and its property data
RecordBytes(i, struct_id) ==
    WordsLe(<<struct_id, 4 * (i - 1), 16 + i, 0>>) \o [j \in 1..StructSize(struct_id) |-> j]

RECURSIVE RecordTable(_, _)
RecordTable(ids, i) ==
    IF i > Len(ids) THEN <<>> ELSE RecordBytes(i, ids[i]) \o RecordTable(ids, i + 1)

\* the position of the property data of record i
RECURSIVE DataOffset(_, _)
DataOffset(ids, i) ==
    IF i = 1 THEN Len(DCB_MAGIC) + 16
    ELSE DataOffset(ids, i - 1) + StructSize(ids[i - 1]) + 16

LazyRecords(ids) ==
    [i \in 1..Len(ids) |->
        [id |-> i - 1, struct_id |-> ids[i], name |-> StringAt(DcbStrings, 4 * (i - 1)),
         guid |-> <<16 + i, 0>>, file_offset |-> DataOffset(ids, i)]]

DcbFileKinds == {"Whole", "Truncated"}

DcbFile(kind, ids) ==
    IF kind = "Whole" THEN DCB_MAGIC \o RecordTable(ids, 1)
    ELSE SubSeq(DCB_MAGIC \o RecordTable(ids, 1), 1, Len(DCB_MAGIC) + Len(RecordTable(ids, 1)) - 1)

DcbInput(kind, ids) ==
    [handle |-> TRUE, file |-> DcbFile(kind, ids),
     header |-> [record_offset |-> Len(DCB_MAGIC), record_count |-> Len(ids)],
     strings |-> DcbStrings, structs |-> DcbStructs, properties |-> DcbProperties,
     records |-> LazyRecords(ids)]

DcbInputs ==
    {DcbInput(kind, ids) : kind \in DcbFileKinds, ids \in SeqsUpTo(0..Len(DcbStructs), MaxRecords)}

NoDcbResult ==
    [done |-> FALSE, eager |-> [ok |-> FALSE, err |-> None, records |-> <<>>],
     lazy |-> [ok |-> FALSE, err |-> None, records |-> <<>>]]

DcbInit ==
    /\ dcbIn \in DcbInputs
    /\ dcbLast = NoDcbResult

DcbIdle ==
    /\ dcbIn = DcbInput("Whole", <<>>)
    /\ dcbLast = NoDcbResult

\* DcbParser::parse_records on the file, and LazyDataCore::to_eager on the lazy
\* database of the same file
DcbParse ==
    /\ ~dcbLast.done
    /\ dcbLast' = [done |-> TRUE, eager |-> ParseRecords(dcbIn), lazy |-> ToEager(dcbIn)]
    /\ UNCHANGED <<dcbIn, notDcbVars>>

DcbNext == DcbParse

(***************************************************************************)
(* P4kParser::parse_with_options on the bytes of an archive file           *)
(* (parsers/p4k/mod.rs): magic, end of central directory record, ZIP64     *)
(* records, central directory entries, path index. A path is the tuple of  *)
(* its bytes; a crc, a size or a local header offset is kept as the tuple  *)
(* of its little-endian bytes, so that 0xFFFFFFFF is a value like another. *)
(* The files keep every count and directory offset below 2^31.             *)
(***************************************************************************)
P4K_MAGIC == <<80, 75, 3, 4>>
EOCD_SIGNATURE == 101010256
ZIP64_EOCD_SIGNATURE == 101075792
ZIP64_EOCD_LOCATOR_SIGNATURE == 117853008

\* the number of trailing bytes parse_eocd searches: 65536 + 22
EocdSearchLen == 65558

\* u16::from_le_bytes
U16FromLe(buf) == buf[1] + 256 * buf[2]

\* u64::from_le_bytes of a count or an offset
U64FromLe(buf) == U32FromLe(buf)

\* u32 as u64, as bytes
AsU64(buf4) == buf4 \o <<0, 0, 0, 0>>

\* CompressionMethod::from(u16)
CompressionMethodFrom(value) ==
    CASE value = 0 -> "Store"
      [] value = 8 -> "Deflate"
      [] value = 93 -> "Zstd"
      [] value = 99 -> "Lz4"
      [] OTHER -> "Unknown"

\* buffer.windows(4).rposition(|w| w == sig): -1 when there is none
RPosition(buffer, sig) ==
    IF \E i \in 0..(Len(buffer) - 4) : SubSeq(buffer, i + 1, i + 4) = sig
    THEN CHOOSE i \in 0..(Len(buffer) - 4) :
            /\ SubSeq(buffer, i + 1, i + 4) = sig
            /\ \A j \in (i + 1)..(Len(buffer) - 4) : SubSeq(buffer, j + 1, j + 4) # sig
    ELSE -1

\* EndOfCentralDirectory: cd_offset, total_entries, and cd_size as its bytes
EocdErr(kind) ==
    [ok |-> FALSE, err |-> kind, cd_offset |-> 0, total_entries |-> 0,
     cd_size |-> <<0, 0, 0, 0, 0, 0, 0, 0>>]

\* cd_size: cd_size as u64 in the record parse_eocd returns
WithCdSize(pair, cd_size) ==
    IF ~pair.ok THEN pair ELSE [pair EXCEPT !.cd_size = AsU64(cd_size)]

Zip64Record(r) ==
    IF ~r.ok THEN EocdErr("Io")
    ELSE IF SubSeq(r.buf, 1, 4) # U32Le(ZIP64_EOCD_SIGNATURE) THEN EocdErr("InvalidMagic")
    ELSE [ok |-> TRUE, err |-> None, cd_offset |-> U64FromLe(SubSeq(r.buf, 49, 56)),
          total_entries |-> U64FromLe(SubSeq(r.buf, 33, 40)),
          cd_size |-> <<0, 0, 0, 0, 0, 0, 0, 0>>]

Zip64Locator(file, r) ==
    IF ~r.ok THEN EocdErr("Io")
    ELSE IF SubSeq(r.buf, 1, 4) # U32Le(ZIP64_EOCD_LOCATOR_SIGNATURE) THEN EocdErr("InvalidMagic")
    ELSE Zip64Record(ReadExact(file, U64FromLe(SubSeq(r.buf, 9, 16)), 56))

\* P4kParser::parse_zip64_eocd
ParseZip64Eocd(file, eocd_offset) ==
    Zip64Locator(file, ReadExact(file, IF eocd_offset > 20 THEN eocd_offset - 20 ELSE 0, 20))

EocdRecord(file, eocd_abs_offset, r) ==
    IF ~r.ok THEN EocdErr("Io")
    ELSE IF SubSeq(r.buf, 17, 20) = <<255, 255, 255, 255>>
            \/ U16FromLe(SubSeq(r.buf, 11, 12)) = 65535
    THEN WithCdSize(ParseZip64Eocd(file, eocd_abs_offset), SubSeq(r.buf, 13, 16))
    ELSE [ok |-> TRUE, err |-> None, cd_offset |-> U32FromLe(SubSeq(r.buf, 17, 20)),
          total_entries |-> U16FromLe(SubSeq(r.buf, 11, 12)),
          cd_size |-> AsU64(SubSeq(r.buf, 13, 16))]

EocdFound(file, search_start, eocd_offset) ==
    IF eocd_offset < 0 THEN EocdErr("InvalidMagic")
    ELSE EocdRecord(file, search_start + eocd_offset,
                    ReadExact(file, search_start + eocd_offset, 22))

EocdSearch(file, search_start) ==
    EocdFound(file, search_start,
              RPosition(SubSeq(file, search_start + 1, Len(file)), U32Le(EOCD_SIGNATURE)))

\* P4kParser::parse_eocd
ParseEocd(file) ==
    EocdSearch(file, IF Len(file) > EocdSearchLen THEN Len(file) - EocdSearchLen ELSE 0)

\* the sizes and the offset after the ZIP64 extra field at pos (past its id and size)
Zip64Field(extra, pos, size, sizes) ==
    LET has_u == sizes.uncompressed = AsU64(<<255, 255, 255, 255>>) /\ 8 <= size
        pos_c == IF has_u THEN 8 ELSE 0
        has_c == sizes.compressed = AsU64(<<255, 255, 255, 15>>) /\ pos_c + 8 <= size
        pos_o == IF has_c THEN pos_c + 8 ELSE pos_c
        has_o == sizes.offset = AsU64(<<255, 255, 255, 15>>) /\ pos_o + 8 <= size
    IN  [uncompressed |-> IF has_u THEN SubSeq(extra, pos + 1, pos + 8) ELSE sizes.uncompressed,
         compressed |-> IF has_c THEN SubSeq(extra, pos + pos_c + 1, pos + pos_c + 8)
                        ELSE sizes.compressed,
         offset |-> IF has_o THEN SubSeq(extra, pos + pos_o + 1, pos + pos_o + 8)
                    ELSE sizes.offset]

\* the loop of parse_zip64_extra from position pos of the extra field
RECURSIVE Zip64ExtraFrom(_, _, _)
Zip64ExtraFrom(extra, pos, sizes) ==
    IF pos + 4 > Len(extra) THEN sizes
    ELSE IF U16FromLe(SubSeq(extra, pos + 1, pos + 2)) = 1
            /\ pos + 4 + U16FromLe(SubSeq(extra, pos + 3, pos + 4)) <= Len(extra)
    THEN Zip64Field(extra, pos + 4, U16FromLe(SubSeq(extra, pos + 3, pos + 4)), sizes)
    ELSE Zip64ExtraFrom(extra, pos + 4 + U16FromLe(SubSeq(extra, pos + 3, pos + 4)), sizes)

\* P4kParser::parse_zip64_extra
ParseZip64Extra(extra, compressed_size, uncompressed_size, local_offset) ==
    Zip64ExtraFrom(extra, 0, [compressed |-> AsU64(compressed_size),
                              uncompressed |-> AsU64(uncompressed_size),
                              offset |-> AsU64(local_offset)])

CdEntryErr(kind) == [ok |-> FALSE, err |-> kind, pos |-> 0, entry |-> <<>>]

CdEntryOf(header, path, sizes, pos) ==
    [ok |-> TRUE, err |-> None, pos |-> pos,
     entry |-> [path |-> path,
                compression |-> CompressionMethodFrom(U16FromLe(SubSeq(header, 11, 12))),
                crc32 |-> SubSeq(header, 17, 20),
                compressed_size |-> sizes.compressed,
                uncompressed_size |-> sizes.uncompressed,
                local_header_offset |-> sizes.offset,
                flags |-> U16FromLe(SubSeq(header, 9, 10)),
                mod_time |-> U16FromLe(SubSeq(header, 13, 14)),
                mod_date |-> U16FromLe(SubSeq(header, 15, 16)),
                is_encrypted |-> header[9] % 2 = 1,
                is_directory |-> path # <<>> /\ path[Len(path)] = 47]]

CdEntryExtra(header, pos, name, extra) ==
    IF ~extra.ok THEN CdEntryErr("Io")
    ELSE CdEntryOf(header, name.buf,
                   ParseZip64Extra(extra.buf, SubSeq(header, 21, 24), SubSeq(header, 25, 28),
                                   SubSeq(header, 43, 46)),
                   pos + 46 + Len(name.buf) + Len(extra.buf) + U16FromLe(SubSeq(header, 33, 34)))

CdEntryName(file, header, pos, name) ==
    IF ~name.ok THEN CdEntryErr("Io")
    ELSE CdEntryExtra(header, pos, name,
                      ReadExact(file, pos + 46 + Len(name.buf), U16FromLe(SubSeq(header, 31, 32))))

CdEntryHeader(file, pos, r) ==
    IF ~r.ok THEN CdEntryErr("Io")
    ELSE IF SubSeq(r.buf, 1, 4) # U32Le(CD_SIGNATURE) THEN CdEntryErr("InvalidMagic")
    ELSE CdEntryName(file, r.buf, pos, ReadExact(file, pos + 46, U16FromLe(SubSeq(r.buf, 29, 30))))

\* P4kParser::parse_cd_entry at position pos
ParseCdEntry(file, pos) == CdEntryHeader(file, pos, ReadExact(file, pos, 46))

RECURSIVE CdEntriesFrom(_, _, _, _, _)
CdEntriesAfter(file, i, total, entries, e) ==
    IF ~e.ok THEN [ok |-> FALSE, err |-> e.err, entries |-> <<>>]
    ELSE CdEntriesFrom(file, i + 1, total, e.pos, Append(entries, e.entry))

CdEntriesFrom(file, i, total, pos, entries) ==
    IF i >= total THEN [ok |-> TRUE, err |-> None, entries |-> entries]
    ELSE CdEntriesAfter(file, i, total, entries, ParseCdEntry(file, pos))

\* P4kParser::parse_central_directory
ParseCentralDirectory(file, eocd) ==
    CdEntriesFrom(file, 0, eocd.total_entries, eocd.cd_offset, <<>>)

\* the outcome of a parse with the record parse_eocd gave it, if it came that far
P4kErr(kind, eocd) ==
    [ok |-> FALSE, err |-> kind, entries |-> <<>>, path_index |-> [k \in {} |-> 0],
     eocd |-> eocd]

P4kArchive(d, eocd) ==
    IF ~d.ok THEN P4kErr(d.err, eocd)
    ELSE [ok |-> TRUE, err |-> None, entries |-> d.entries,
          path_index |-> PathIndex(d.entries, Len(d.entries)), eocd |-> eocd]

P4kAfterEocd(file, eocd) ==
    IF ~eocd.ok THEN P4kErr(eocd.err, eocd)
    ELSE P4kArchive(ParseCentralDirectory(file, eocd), eocd)

P4kAfterMagic(file, magic) ==
    IF ~magic.ok THEN P4kErr("Io", EocdErr(None))
    ELSE IF magic.buf # P4K_MAGIC THEN P4kErr("InvalidMagic", EocdErr(None))
    ELSE P4kAfterEocd(file, ParseEocd(file))

\* P4kParser::parse_with_options
P4kParseWithOptions(file) == P4kAfterMagic(file, ReadExact(file, 0, 4))

(***************************************************************************)
(* The archive files parsed: an optional local record at the start, up to  *)
(* MaxEntries central directory entries, and an end of central directory   *)
(* record: plain, with a comment, with the ZIP64 records, absent, cut      *)
(* short, or counting one entry more than the directory holds. With the    *)
(* ZIP64 records, the 22 byte record holds the sentinel in its offset and  *)
(* its count (Zip64), in its count, its offset or its size alone, or in    *)
(* all three.                                                              *)
(***************************************************************************)
MaxEntries == 2

U16Le(n) == <<n % 256, n \div 256>>

\* "a", "b/"
EntryNames == {<<97>>, <<98, 47>>}

\* a ZIP64 extra field carrying one 64-bit value
Zip64ExtraBytes == <<1, 0, 8, 0, 5, 0, 0, 0, 0, 0, 0, 0>>

EntrySpecs ==
    {[name |-> n, kind |-> k] : n \in EntryNames, k \in {"Plain"}}
        \cup {[name |-> <<97>>, kind |-> k] : k \in {"Zip64", "BadSignature"}}

\* a central directory entry: 46 byte header, name, extra field; method 0, flags 0
CdEntryBytes(spec) ==
    U32Le(IF spec.kind = "BadSignature" THEN LOCAL_HEADER_SIGNATURE ELSE CD_SIGNATURE)
        \o U16Le(20) \o U16Le(20) \o U16Le(0) \o U16Le(0) \o U16Le(0) \o U16Le(0)
        \o <<1, 2, 3, 4>> \o U32Le(3)
        \o (IF spec.kind = "Zip64" THEN <<255, 255, 255, 255>> ELSE U32Le(3))
        \o U16Le(Len(spec.name))
        \o U16Le(IF spec.kind = "Zip64" THEN Len(Zip64ExtraBytes) ELSE 0)
        \o U16Le(0) \o U16Le(0) \o U16Le(0) \o U32Le(0) \o U32Le(0)
        \o spec.name
        \o (IF spec.kind = "Zip64" THEN Zip64ExtraBytes ELSE <<>>)

RECURSIVE CdBytes(_)
CdBytes(specs) ==
    IF specs = <<>> THEN <<>> ELSE CdEntryBytes(Head(specs)) \o CdBytes(Tail(specs))

Leads == {"LocalRecord", "Nothing"}
LeadBytes(lead) == IF lead = "LocalRecord" THEN P4K_MAGIC \o <<0, 0>> ELSE <<>>

Zip64Kinds == {"Zip64", "Zip64Total", "Zip64Offset", "Zip64Size", "Zip64All"}

EocdKinds == {"Plain", "Comment", "Absent", "Truncated", "OneMore"} \cup Zip64Kinds

\* the 22 byte record
EocdBytes(total, cd_size, cd_offset, comment) ==
    U32Le(EOCD_SIGNATURE) \o U16Le(0) \o U16Le(0) \o U16Le(total) \o U16Le(total)
        \o cd_size \o cd_offset \o U16Le(Len(comment)) \o comment

\* the ZIP64 record (56 bytes) and its locator (20 bytes)
Zip64Bytes(total, cd_size, cd_offset, zip64_offset) ==
    U32Le(ZIP64_EOCD_SIGNATURE) \o U32Le(44) \o U32Le(0) \o U16Le(45) \o U16Le(45)
        \o U32Le(0) \o U32Le(0) \o U32Le(total) \o U32Le(0) \o U32Le(total) \o U32Le(0)
        \o U32Le(cd_size) \o U32Le(0) \o U32Le(cd_offset) \o U32Le(0)
        \o U32Le(ZIP64_EOCD_LOCATOR_SIGNATURE) \o U32Le(0) \o U32Le(zip64_offset) \o U32Le(0)
        \o U32Le(1)

TailBytes(kind, total, cd_size, cd_offset) ==
    CASE kind = "Plain" -> EocdBytes(total, U32Le(cd_size), U32Le(cd_offset), <<>>)
      [] kind = "Comment" -> EocdBytes(total, U32Le(cd_size), U32Le(cd_offset), <<104, 105>>)
      [] kind \in Zip64Kinds ->
            Zip64Bytes(total, cd_size, cd_offset, cd_offset + cd_size)
                \o EocdBytes(IF kind \in {"Zip64", "Zip64Total", "Zip64All"} THEN 65535
                              ELSE total,
                             IF kind \in {"Zip64Size", "Zip64All"} THEN <<255, 255, 255, 255>>
                              ELSE U32Le(cd_size),
                             IF kind \in {"Zip64", "Zip64Offset", "Zip64All"}
                              THEN <<255, 255, 255, 255>> ELSE U32Le(cd_offset),
                             <<>>)
      [] kind = "Absent" -> <<>>
      [] kind = "Truncated" ->
            SubSeq(EocdBytes(total, U32Le(cd_size), U32Le(cd_offset), <<>>), 1, 20)
      [] kind = "OneMore" -> EocdBytes(total + 1, U32Le(cd_size), U32Le(cd_offset), <<>>)

P4kFile(lead, specs, kind) ==
    LeadBytes(lead) \o CdBytes(specs)
        \o TailBytes(kind, Len(specs), Len(CdBytes(specs)), Len(LeadBytes(lead)))

P4kInput(lead, specs, kind) ==
    [file |-> P4kFile(lead, specs, kind), lead |-> lead, specs |-> specs, eocd |-> kind]

P4kInputs ==
    {P4kInput(lead, specs, kind) :
        lead \in Leads, specs \in SeqsUpTo(EntrySpecs, MaxEntries), kind \in EocdKinds}

NoP4kResult ==
    [done |-> FALSE, ok |-> FALSE, err |-> None, entries |-> <<>>,
     path_index |-> [k \in {} |-> 0], eocd |-> EocdErr(None)]

P4kInit ==
    /\ p4kIn \in P4kInputs
    /\ p4kLast = NoP4kResult

P4kIdle ==
    /\ p4kIn = P4kInput("Nothing", <<>>, "Absent")
    /\ p4kLast = NoP4kResult

\* P4kParser::parse_with_options on the file
P4kParse ==
    /\ ~p4kLast.done
    /\ LET a == P4kParseWithOptions(p4kIn.file)
       IN  p4kLast' = [done |-> TRUE, ok |-> a.ok, err |-> a.err, entries |-> a.entries,
                       path_index |-> a.path_index, eocd |-> a.eocd]
    /\ UNCHANGED <<p4kIn, notP4kVars>>

P4kNext == P4kParse

(***************************************************************************)
(* Strings are the sequences of their bytes.                               *)
(***************************************************************************)
\* str::to_lowercase on ASCII text
ToLowercase(str) == [i \in 1..Len(str) |-> IF str[i] \in 65..90 THEN str[i] + 32 ELSE str[i]]

\* str::ends_with
EndsWith(str, pat) ==
    Len(pat) <= Len(str) /\ SubSeq(str, Len(str) - Len(pat) + 1, Len(str)) = pat

\* str::find: the index (from 0) of the first occurrence of pat, -1 for None
StrFind(str, pat) ==
    IF \E i \in 0..(Len(str) - Len(pat)) : SubSeq(str, i + 1, i + Len(pat)) = pat
    THEN CHOOSE i \in 0..(Len(str) - Len(pat)) :
            /\ SubSeq(str, i + 1, i + Len(pat)) = pat
            /\ \A j \in 0..(i - 1) : SubSeq(str, j + 1, j + Len(pat)) # pat
    ELSE -1

\* str::contains
StrContains(str, pat) == StrFind(str, pat) >= 0

\* str::split(c).collect()
RECURSIVE StrSplit(_, _)
StrSplit(str, c) ==
    LET idx == StrFind(str, <<c>>)
    IN  IF idx < 0 THEN <<str>>
        ELSE <<SubSeq(str, 1, idx)>> \o StrSplit(SubSeq(str, idx + 2, Len(str)), c)

\* str::trim_end_matches(c)
RECURSIVE TrimEndMatches(_, _)
TrimEndMatches(str, c) ==
    IF str # <<>> /\ str[Len(str)] = c THEN TrimEndMatches(SubSeq(str, 1, Len(str) - 1), c)
    ELSE str

\* str::trim_start_matches(c)
RECURSIVE TrimStartMatches(_, _)
TrimStartMatches(str, c) ==
    IF str # <<>> /\ str[1] = c THEN TrimStartMatches(Tail(str), c) ELSE str

(***************************************************************************)
(* P4kArchive::find and P4kArchive::list_directory (parsers/p4k/           *)
(* archive.rs) on the entries of a parsed archive. A call returns the      *)
(* entries it selects, given by their positions in the entry list.         *)
(***************************************************************************)
MaxArchiveEntries == 2

Slash == 47
Star == 42

\* the wildcard branch of the filter of find: the loop over the parts from
\* part i (from 0) with the position pos reached in the path
RECURSIVE MatchParts(_, _, _, _)
MatchParts(path, parts, i, pos) ==
    IF i >= Len(parts) THEN TRUE
    ELSE LET part == parts[i + 1]
         IN  IF part = <<>> THEN MatchParts(path, parts, i + 1, pos)
             ELSE IF i = 0
             THEN IF ~StartsWith(path, part) THEN FALSE
                  ELSE MatchParts(path, parts, i + 1, Len(part))
             ELSE IF i = Len(parts) - 1
             THEN IF ~EndsWith(path, part) THEN FALSE
                  ELSE MatchParts(path, parts, i + 1, pos)
             ELSE LET idx == StrFind(SubSeq(path, pos + 1, Len(path)), part)
                  IN  IF idx >= 0 THEN MatchParts(path, parts, i + 1, pos + idx + Len(part))
                      ELSE FALSE

\* the filter of find on one entry
FindFilter(entry, pattern) ==
    LET parts == StrSplit(ToLowercase(pattern), Star)
        path == ToLowercase(entry.path)
    IN  IF Len(parts) = 1 THEN StrContains(path, ToLowercase(pattern))
        ELSE MatchParts(path, parts, 0, 0)

\* P4kArchive::find
Find(entries, pattern) ==
    SelectSeq([i \in 1..Len(entries) |-> i], LAMBDA i : FindFilter(entries[i], pattern))

\* the filter of list_directory on one entry
ListFilter(entry, prefix) ==
    IF StartsWith(entry.path, prefix)
    THEN LET remainder == SubSeq(entry.path, Len(prefix) + 1, Len(entry.path))
         IN  ~StrContains(TrimEndMatches(remainder, Slash), <<Slash>>)
    ELSE FALSE

\* P4kArchive::list_directory
ArchiveListDirectory(entries, path) ==
    LET trimmed == TrimEndMatches(path, Slash)
        prefix == IF trimmed = <<>> THEN <<>> ELSE trimmed \o <<Slash>>
    IN  SelectSeq([i \in 1..Len(entries) |-> i], LAMBDA i : ListFilter(entries[i], prefix))

\* "D/", "D/a", "D/d/", "D/d/a", "a", "Da"
QueryPaths ==
    {<<68, 47>>, <<68, 47, 97>>, <<68, 47, 100, 47>>, <<68, 47, 100, 47, 97>>, <<97>>, <<68, 97>>}

\* "a", "*a", "d*", "D/*", "a*a", "*", "d/A", "*/*a"
Patterns ==
    {<<97>>, <<42, 97>>, <<100, 42>>, <<68, 47, 42>>, <<97, 42, 97>>, <<42>>, <<100, 47, 65>>,
     <<42, 47, 42, 97>>}

\* "D", "D/", "", "D/d", "a"
ListedDirs == {<<68>>, <<68, 47>>, <<>>, <<68, 47, 100>>, <<97>>}

Archives == {[entries |-> e] : e \in SeqsUpTo({[path |-> p] : p \in QueryPaths}, MaxArchiveEntries)}

NoQuery == [op |-> "none", arg |-> <<>>, found |-> <<>>]

ArchiveInit ==
    /\ arch \in Archives
    /\ queryLast = NoQuery

ArchiveIdle ==
    /\ arch = [entries |-> <<>>]
    /\ queryLast = NoQuery

\* P4kArchive::find
ArchiveFind(pattern) ==
    /\ queryLast' = [op |-> "find", arg |-> pattern, found |-> Find(arch.entries, pattern)]
    /\ UNCHANGED <<arch, notArchiveVars>>

\* P4kArchive::list_directory
ArchiveList(path) ==
    /\ queryLast' = [op |-> "list_directory", arg |-> path,
                     found |-> ArchiveListDirectory(arch.entries, path)]
    /\ UNCHANGED <<arch, notArchiveVars>>

ArchiveNext ==
    \/ \E pattern \in Patterns : ArchiveFind(pattern)
    \/ \E path \in ListedDirs : ArchiveList(path)

(***************************************************************************)
(* ChunkedReader over VfsStreamReader (crates/vfs/stream.rs)               *)
(*                                                                         *)
(* The reader is given by the stream data, the position pos of the inner    *)
(* reader in it, the bytes of the buffer not yet handed out                *)
(* (buffer[buffer_pos..buffer_len]) and chunk_size. The inner reader hands  *)
(* out at most max_read bytes a call. A buffer to read into is given by    *)
(* its length.                                                             *)
(***************************************************************************)
MaxStreamLen == 4

\* VfsStreamReader::new: 64 * 1024
DefaultCapacity == 65536

Least(a, b) == IF a <= b THEN a ELSE b

\* inner.read(buf) with a buffer of len bytes
InnerRead(r, len) ==
    LET n == Least(Least(len, r.max_read), Len(r.data) - r.pos)
    IN  [returns |-> TRUE, bytes |-> SubSeq(r.data, r.pos + 1, r.pos + n),
         reader |-> [r EXCEPT !.pos = r.pos + n]]

\* self.read(buf) after fill_buffer put the bytes filled in the buffer: with
\* bytes in the buffer it copies them out; with none, read is in the state it
\* was called in, fills again and calls itself again, without end
ReadAfterFill(filled, len) ==
    IF filled.bytes = <<>>
    THEN [returns |-> FALSE, bytes |-> <<>>, reader |-> filled.reader]
    ELSE LET to_copy == Least(Len(filled.bytes), len)
         IN  [returns |-> TRUE, bytes |-> SubSeq(filled.bytes, 1, to_copy),
              reader |-> [filled.reader EXCEPT
                            !.buffer = SubSeq(filled.bytes, to_copy + 1, Len(filled.bytes))]]

\* impl Read for VfsStreamReader: read(buf) with a buffer of len bytes
StreamRead(r, len) ==
    IF r.buffer # <<>>
    THEN LET to_copy == Least(Len(r.buffer), len)
         IN  [returns |-> TRUE, bytes |-> SubSeq(r.buffer, 1, to_copy),
              reader |-> [r EXCEPT !.buffer = SubSeq(r.buffer, to_copy + 1, Len(r.buffer))]]
    ELSE IF len >= DefaultCapacity THEN InnerRead(r, len)
    ELSE ReadAfterFill(InnerRead(r, DefaultCapacity), len)

\* the loop of read_chunk with total_read bytes in chunk, and its match on
\* what read returned
RECURSIVE ReadChunkLoop(_, _)
ReadChunkMatch(chunk, res) ==
    IF ~res.returns THEN [returns |-> FALSE, some |-> FALSE, chunk |-> <<>>, reader |-> res.reader]
    ELSE IF res.bytes = <<>>
    THEN [returns |-> TRUE, some |-> chunk # <<>>, chunk |-> chunk, reader |-> res.reader]
    ELSE IF Len(chunk) + Len(res.bytes) >= res.reader.chunk_size
    THEN [returns |-> TRUE, some |-> TRUE, chunk |-> chunk \o res.bytes, reader |-> res.reader]
    ELSE ReadChunkLoop(res.reader, chunk \o res.bytes)

ReadChunkLoop(r, chunk) == ReadChunkMatch(chunk, StreamRead(r, r.chunk_size - Len(chunk)))

\* ChunkedReader::read_chunk
ReadChunkOf(r) == ReadChunkLoop(r, <<>>)

ChunkSizes == {1, 2, 3, DefaultCapacity}
InnerReadSizes == {1, 2, DefaultCapacity}

\* ChunkedReader::new on a stream of n bytes
ChunkedReaderNew(n, chunk_size, max_read) ==
    [data |-> [i \in 1..n |-> i], pos |-> 0, buffer |-> <<>>, chunk_size |-> chunk_size,
     max_read |-> max_read]

NoChunks == [chunks |-> <<>>, ended |-> FALSE, hung |-> FALSE]

ChunkedInit ==
    /\ chunked \in {ChunkedReaderNew(n, c, m) : n \in 0..MaxStreamLen, c \in ChunkSizes,
                                                m \in InnerReadSizes}
    /\ chunkLast = NoChunks

ChunkedIdle ==
    /\ chunked = ChunkedReaderNew(0, 1, 1)
    /\ chunkLast = NoChunks

\* one round of the loop of process_chunks: read_chunk returns Some(chunk) and
\* the callback takes it, or returns None and the loop ends, or does not return
ReadChunk ==
    /\ ~chunkLast.ended /\ ~chunkLast.hung
    /\ LET c == ReadChunkOf(chunked)
       IN  /\ chunked' = c.reader
           /\ chunkLast' = [chunks |-> IF c.returns /\ c.some THEN Append(chunkLast.chunks, c.chunk)
                                        ELSE chunkLast.chunks,
                            ended |-> c.returns /\ ~c.some,
                            hung |-> ~c.returns]
    /\ UNCHANGED notChunkedVars

ChunkedNext == ReadChunk

(***************************************************************************)
(* ParserRegistry (parsers/registry.rs)                                    *)
(***************************************************************************)
\* parsers.get(id).map(|p| p.priority).unwrap_or(0)
PriorityOf(parsers, id) == IF id \in DOMAIN parsers THEN parsers[id].priority ELSE 0

\* one step of the stable sort of ids by descending priority: id goes behind
\* the ids whose priority is at least its own
InsertId(sorted, id, parsers) ==
    LET ahead == {i \in 1..Len(sorted) :
                    PriorityOf(parsers, sorted[i]) >= PriorityOf(parsers, id)}
        k == Cardinality(ahead)
    IN  SubSeq(sorted, 1, k) \o <<id>> \o SubSeq(sorted, k + 1, Len(sorted))

\* ids.sort_by(|a, b| pb.cmp(&pa)) with the priorities looked up in parsers
RECURSIVE SortIds(_, _)
SortIds(ids, parsers) ==
    IF ids = <<>> THEN <<>>
    ELSE InsertId(SortIds(SubSeq(ids, 1, Len(ids) - 1), parsers), ids[Len(ids)], parsers)

\* ext_map.entry(ext_lower).or_insert_with(Vec::new)
IdsOf(ext_map, ext_lower) == IF ext_lower \in DOMAIN ext_map THEN ext_map[ext_lower] ELSE <<>>

\* the loop of register over the extensions of the registration: the id is
\* pushed and the list sorted, with the parsers registered before this call
RECURSIVE RegisterExtensions(_, _, _, _)
RegisterExtensions(ext_map, extensions, id, parsers) ==
    IF extensions = <<>> THEN ext_map
    ELSE LET ext_lower == ToLowercase(Head(extensions))
         IN  RegisterExtensions(
                MapPut(ext_map, ext_lower,
                       SortIds(Append(IdsOf(ext_map, ext_lower), id), parsers)),
                Tail(extensions), id, parsers)

\* ids.retain(|i| i != id)
RetainOthers(ids, id) == SelectSeq(ids, LAMBDA i : i # id)

\* the loop of unregister over the extensions of the registration removed
RECURSIVE UnregisterExtensions(_, _, _)
UnregisterExtensions(ext_map, extensions, id) ==
    IF extensions = <<>> THEN ext_map
    ELSE LET ext_lower == ToLowercase(Head(extensions))
         IN  UnregisterExtensions(
                IF ext_lower \in DOMAIN ext_map
                THEN MapPut(ext_map, ext_lower, RetainOthers(ext_map[ext_lower], id))
                ELSE ext_map,
                Tail(extensions), id)

\* the id get_for_extension looks up: the first of the list of the extension
FirstIdFor(ext_map, ext) ==
    LET ext_lower == TrimStartMatches(ToLowercase(ext), 46)
    IN  IF ext_lower \in DOMAIN ext_map /\ ext_map[ext_lower] # <<>>
        THEN [some |-> TRUE, id |-> ext_map[ext_lower][1]]
        ELSE [some |-> FALSE, id |-> None]

ParserIds == {"a", "b", "c"}
RegPriorities == {-5, 5, 10}

\* ["x"], ["X", "y"]
ExtensionLists == {<<<<120>>>>, <<<<88>>, <<121>>>>}

Registrations ==
    {[id |-> i, priority |-> p, extensions |-> e] :
        i \in ParserIds, p \in RegPriorities, e \in ExtensionLists}

\* "x", ".X", "y", "z"
AskedExtensions == {<<120>>, <<46, 88>>, <<121>>, <<122>>}

NoRegCall == [op |-> "none", arg |-> <<>>, ok |-> FALSE, id |-> None]

\* ParserRegistry::new
RegistryInit ==
    /\ registry = [parsers |-> EmptyMap, extension_map |-> EmptyMap, instances |-> {}]
    /\ regLast = NoRegCall

\* ParserRegistry::register
Register(registration) ==
    /\ IF registration.id \in DOMAIN registry.parsers
       THEN /\ regLast' = [op |-> "register", arg |-> <<>>, ok |-> FALSE, id |-> registration.id]
            /\ UNCHANGED registry
       ELSE /\ registry' =
                    [registry EXCEPT
                        !.extension_map =
                            RegisterExtensions(registry.extension_map, registration.extensions,
                                               registration.id, registry.parsers),
                        !.parsers = MapPut(registry.parsers, registration.id, registration)]
            /\ regLast' = [op |-> "register", arg |-> <<>>, ok |-> TRUE, id |-> registration.id]
    /\ UNCHANGED notRegistryVars

\* ParserRegistry::unregister
Unregister(id) ==
    /\ IF id \in DOMAIN registry.parsers
       THEN /\ registry' =
                    [parsers |-> MapRemove(registry.parsers, id),
                     extension_map |->
                        UnregisterExtensions(registry.extension_map,
                                             registry.parsers[id].extensions, id),
                     instances |-> registry.instances \ {id}]
            /\ regLast' = [op |-> "unregister", arg |-> <<>>, ok |-> TRUE, id |-> id]
       ELSE /\ regLast' = [op |-> "unregister", arg |-> <<>>, ok |-> FALSE, id |-> id]
            /\ UNCHANGED registry
    /\ UNCHANGED notRegistryVars

\* ParserRegistry::get_for_extension, and the get it ends with
GetForExtension(ext) ==
    /\ LET first == FirstIdFor(registry.extension_map, ext)
           known == first.some /\ (first.id \in registry.instances
                                    \/ first.id \in DOMAIN registry.parsers)
       IN  /\ regLast' = [op |-> "get_for_extension", arg |-> ext, ok |-> known,
                          id |-> first.id]
           /\ registry' = IF known
                          THEN [registry EXCEPT !.instances = registry.instances \cup {first.id}]
                          ELSE registry
    /\ UNCHANGED notRegistryVars

RegistryNext ==
    \/ \E registration \in Registrations : Register(registration)
    \/ \E id \in ParserIds : Unregister(id)
    \/ \E ext \in AskedExtensions : GetForExtension(ext)

(***************************************************************************)
(* DdsCombiner::find_split_files (parsers/dds/combiner.rs)                 *)
(***************************************************************************)
\* for i in 1..=99
LastSplitIndex == 99

\* format!("{}", i) for i >= 0
RECURSIVE Decimal(_)
Decimal(i) == IF i < 10 THEN <<48 + i>> ELSE Decimal(i \div 10) \o <<48 + (i % 10)>>

\* "t.dds"
BaseName == <<116, 46, 100, 100, 115>>

\* format!("{}.{}", base_name, i), with the letter appended for "{}.{}a" and
\* "{}.{}b"
Candidate(base_name, i, letter) == base_name \o <<46>> \o Decimal(i) \o letter

\* the candidates of index i that exist, as the loop body pushes them
SplitFilesOf(exists, base_name, i) ==
    IF Candidate(base_name, i, <<>>) \in exists THEN <<Candidate(base_name, i, <<>>)>>
    ELSE IF Candidate(base_name, i, <<97>>) \in exists
    THEN IF Candidate(base_name, i, <<98>>) \in exists
         THEN <<Candidate(base_name, i, <<97>>), Candidate(base_name, i, <<98>>)>>
         ELSE <<Candidate(base_name, i, <<97>>)>>
    ELSE <<>>

\* the loop of find_split_files over the indices lo..hi: what the rounds push,
\* in the order of the indices
RECURSIVE SplitFilesFrom(_, _, _, _)
SplitFilesFrom(exists, base_name, lo, hi) ==
    IF lo > hi THEN <<>>
    ELSE IF lo = hi THEN SplitFilesOf(exists, base_name, lo)
    ELSE SplitFilesFrom(exists, base_name, lo, (lo + hi) \div 2)
            \o SplitFilesFrom(exists, base_name, (lo + hi) \div 2 + 1, hi)

\* Ord for PathBuf on two files of one directory: their names compared byte
\* by byte, a name that is the start of another first
RECURSIVE PathLeq(_, _)
PathLeq(a, b) ==
    IF a = <<>> THEN TRUE
    ELSE IF b = <<>> THEN FALSE
    ELSE IF Head(a) # Head(b) THEN Head(a) < Head(b)
    ELSE PathLeq(Tail(a), Tail(b))

\* one step of the stable sort: path goes behind the paths not greater than it
InsertPath(sorted, path) ==
    LET k == Cardinality({i \in 1..Len(sorted) : PathLeq(sorted[i], path)})
    IN  SubSeq(sorted, 1, k) \o <<path>> \o SubSeq(sorted, k + 1, Len(sorted))

\* split_files.sort()
RECURSIVE SortPaths(_)
SortPaths(paths) ==
    IF paths = <<>> THEN <<>>
    ELSE InsertPath(SortPaths(SubSeq(paths, 1, Len(paths) - 1)), paths[Len(paths)])

\* DdsCombiner::find_split_files
FindSplitFiles(exists, base_name) ==
    SortPaths(SplitFilesFrom(exists, base_name, 1, LastSplitIndex))

\* "t.dds.1", "t.dds.2", "t.dds.2a", "t.dds.3a", "t.dds.3b", "t.dds.10", "t.dds.11a"
SplitNames ==
    {Candidate(BaseName, 1, <<>>), Candidate(BaseName, 2, <<>>), Candidate(BaseName, 2, <<97>>),
     Candidate(BaseName, 3, <<97>>), Candidate(BaseName, 3, <<98>>),
     Candidate(BaseName, 10, <<>>), Candidate(BaseName, 11, <<97>>)}

NoSplit == [done |-> FALSE, files |-> <<>>]

CombinerInit ==
    /\ splitIn \in SUBSET SplitNames
    /\ splitLast = NoSplit

CombinerIdle ==
    /\ splitIn = {}
    /\ splitLast = NoSplit

\* DdsCombiner::find_split_files on the texture t.dds
FindSplit ==
    /\ ~splitLast.done
    /\ splitLast' = [done |-> TRUE, files |-> FindSplitFiles(splitIn, BaseName)]
    /\ UNCHANGED <<splitIn, notCombinerVars>>

CombinerNext == FindSplit

(***************************************************************************)
(* Claims on the extraction cache                                          *)
(***************************************************************************)
\* index of the last occurrence of key in order (its latest use), 0 if none
LastPos(order, key) ==
    IF \E i \in 1..Len(order) : order[i] = key
    THEN CHOOSE i \in 1..Len(order) :
            /\ order[i] = key
            /\ \A j \in (i + 1)..Len(order) : order[j] # key
    ELSE 0

RECURSIVE SumSizes(_, _)
SumSizes(entries, keys) ==
    IF keys = {} THEN 0
    ELSE LET k == CHOOSE x \in keys : TRUE
         IN  Len(entries[k].data) + SumSizes(entries, keys \ {k})

\* thread t completes extract_cached by inserting what it extracted
InsertStep(t) == pc[t] = "extract" /\ pc'[t] = "idle" /\ lastRead'.status = "ok"

\* the entries an insert keeps are all more recently used than those it evicts
EvictsOldestFirst(t) ==
    LET before == DOMAIN cache.entries
        after == DOMAIN cache'.entries
        gone == before \ after
        kept == (before \cap after) \ {tpath[t]}
    IN  \A e \in gone : \A k \in kept : LastPos(cache.order, e) < LastPos(cache.order, k)

\* without the last eviction the new entry would not have fitted
StopsWhenFits(t) ==
    LET gone == (DOMAIN cache.entries) \ (DOMAIN cache'.entries)
        size == Len(lastRead'.data)
    IN  gone # {} =>
            LET last == CHOOSE e \in gone :
                            \A o \in gone : LastPos(cache.order, o) <= LastPos(cache.order, e)
            IN  (cache.current_size - SumSizes(cache.entries, gone \ {last})) + size
                    > cache.max_size_bytes

\* C1: an insert evicts least-recently-used entries first, keeps every entry used
\* more recently than the last one it evicts, and stops evicting as soon as the
\* running byte total plus the new entry's size fits within the cap.
C1_EvictsLruFirstAndStopsWhenFits ==
    [][\A t \in Threads : InsertStep(t) => (EvictsOldestFirst(t) /\ StopsWhenFits(t))]_vars

\* C2: whatever reads, inserts and clears have run, on however many threads, the
\* byte lengths of the entries held in the cache sum to at most the cap.
C2_CacheBounded == SumSizes(cache.entries, DOMAIN cache.entries) <= cache.max_size_bytes

\* an insert that had to evict has completed after two threads inserted the same
\* path: the tracked total has drifted above the bytes held
C2_Witness ==
    /\ lastRead.via = "miss" /\ lastRead.status = "ok"
    /\ lastRead.evicted # {}
    /\ lastRead.path \in DOMAIN cache.entries
    /\ cache.current_size > SumSizes(cache.entries, DOMAIN cache.entries)

\* C3: a read that succeeds returns the bytes a fresh extraction of that path
\* returns, whether it was served from the cache or extracted.
C3_ReadReturnsExtractedBytes ==
    lastRead.status = "ok" => lastRead.data = MountExtract(lastRead.path).data

\* a read served from the cache while other entries are cached, after an earlier
\* hit order had already decided an eviction
C3_Witness ==
    /\ lastRead.via = "hit" /\ lastRead.status = "ok"
    /\ hitPending # {}
    /\ Len(cache.order) > Cardinality(DOMAIN cache.entries)

\* C4: after a hit on K, and until another key is hit, an insert evicts K only
\* once every other key that was cached at the hit has been evicted.
C4_HitKeyEvictedLast ==
    [][\A t \in Threads :
            (InsertStep(t) /\ hitKey # None /\ hitKey \in lastRead'.evicted)
                => hitPending \ lastRead'.evicted = {}]_vars

\* C25: after any interleaving of reads, the byte total the cache tracks is the
\* sum of the sizes of the entries it holds, and each cached key occurs exactly
\* once in the recency order.
C25_CacheAccountingExact ==
    /\ cache.current_size = SumSizes(cache.entries, DOMAIN cache.entries)
    /\ \A k \in DOMAIN cache.entries :
          Cardinality({i \in 1..Len(cache.order) : cache.order[i] = k}) = 1

(***************************************************************************)
(* Claims on the mount stack                                               *)
(***************************************************************************)
\* a is a prefix of b, component by component
IsPrefixOf(a, b) == Len(a) <= Len(b) /\ \A k \in 1..Len(a) : a[k] = b[k]

\* no mounted path is a prefix of another mounted path
NonOverlapping(ms) ==
    \A i, j \in 1..Len(ms) : i # j => ~IsPrefixOf(ms[i].mount_path, ms[j].mount_path)

\* path is a prefix of, or has as a prefix, a path mounted in ms
Overlaps(ms, path) ==
    \E i \in 1..Len(ms) :
        IsPrefixOf(ms[i].mount_path, path) \/ IsPrefixOf(path, ms[i].mount_path)

\* C5: after every mount and unmount the mounted paths are pairwise
\* non-overlapping, and a mount call whose path overlaps a mounted path fails
\* with a mount-conflict error and leaves the stack as it was.
C5_MountsNonOverlapping ==
    [][/\ NonOverlapping(mounts')
       /\ (vfsLast'.op = "mount" /\ Overlaps(mounts, vfsLast'.path))
            => (vfsLast'.result.err = "MountError" /\ mounts' = mounts)]_vars

\* two mounts are in place and a mount of /data, a prefix of the mounted
\* /data/sub, has just been refused
C5_Witness ==
    /\ Len(mounts) = 2
    /\ vfsLast.op = "mount" /\ vfsLast.result.err = "MountError"
    /\ \E i \in 1..Len(mounts) :
            Len(vfsLast.path) < Len(mounts[i].mount_path)
                /\ IsPrefixOf(vfsLast.path, mounts[i].mount_path)

RoutedOps == {"read", "list", "metadata", "write", "create_dir", "delete"}

\* the mounts of ms whose path is a prefix of path
Matching(ms, path) ==
    {i \in 1..Len(ms) : IsPrefixOf(ms[i].mount_path, path)}

\* C6: an operation on path P goes to the first mount of the stack whose path
\* is a prefix of P; with no such mount read, list, metadata and write fail
\* with "no mount point".
C6_RoutedToFirstPrefixMount ==
    vfsLast.op \in RoutedOps =>
        LET match == Matching(mounts, vfsLast.path)
        IN  IF match = {}
            THEN vfsLast.mount = 0
                    /\ (vfsLast.op \in {"read", "list", "metadata", "write"}
                            => vfsLast.result.err = "NoMountPoint")
            ELSE /\ vfsLast.mount \in match
                 /\ \A j \in match : vfsLast.mount <= j
                 /\ vfsLast.result.err # "NoMountPoint"

\* a read below /data/sub was served by the mount at /data/sub, which is not
\* the only mount, and returned the file's bytes
C6_Witness ==
    /\ vfsLast.op = "read" /\ vfsLast.result.ok
    /\ Len(mounts) = 2
    /\ vfsLast.mount # 0
    /\ Len(mounts[vfsLast.mount].mount_path) = 2
    /\ Len(vfsLast.path) = 3

\* C7: a write routed to a read-only mount fails with "read only" and changes
\* nothing; an archive mount is read-only and rejects every write,
\* create-directory and delete.
C7_ReadOnlyRejectsWrites ==
    [][LET i == vfsLast'.mount
       IN  /\ (vfsLast'.op = "write" /\ i # 0 /\ IsReadOnly(mounts[i]))
                => (vfsLast'.result.err = "ReadOnly"
                        /\ disk' = disk /\ cache' = cache /\ mounts' = mounts)
           /\ (vfsLast'.op \in {"write", "create_dir", "delete"} /\ i # 0
                    /\ mounts[i].kind = "p4k")
                => (IsReadOnly(mounts[i]) /\ vfsLast'.result.err = "ReadOnly"
                        /\ disk' = disk /\ cache' = cache /\ mounts' = mounts)]_vars

\* a write through a read-only local mount has been refused after a write
\* through a writable mount had reached the disk
C7_Witness ==
    /\ vfsLast.op = "write" /\ vfsLast.result.err = "ReadOnly"
    /\ vfsLast.mount # 0
    /\ mounts[vfsLast.mount].kind = "local"
    /\ \E r \in DOMAIN disk[LocalRoot] : disk[LocalRoot][r].data = NewData

(***************************************************************************)
(* Claims on the aggregated listing                                        *)
(***************************************************************************)
\* the mounts of the stack that list a node called name in DataDir
Holders(name) ==
    {i \in 1..Len(treeMounts) : \E k \in 1..Len(treeMounts[i].files) :
                                    treeMounts[i].files[k] = name}

\* the nodes mount i lists under the name
NodesFrom(i, name) ==
    {NodeOf(treeMounts[i], k) : k \in {j \in 1..Len(treeMounts[i].files) :
                                            treeMounts[i].files[j] = name}}

\* C8: an aggregated listing holds at most one node per name, and for a name
\* several mounts hold, the node comes from a mount no other holder outranks.
C8_ListingKeepsHigherPriority ==
    (treeLast.op = "list_directory" /\ treeLast.ok /\ NormalizePath(treeLast.arg) = DataDir)
        => /\ \A n1, n2 \in treeLast.nodes : n1.name = n2.name => n1 = n2
           /\ \A n \in treeLast.nodes :
                \E j \in Holders(n.name) :
                    /\ n \in NodesFrom(j, n.name)
                    /\ \A i \in Holders(n.name) :
                            treeMounts[j].priority >= treeMounts[i].priority
           /\ \A i \in 1..Len(treeMounts) : \A k \in 1..Len(treeMounts[i].files) :
                \E n \in treeLast.nodes : n.name = treeMounts[i].files[k]

\* "x" is held by a mount of priority 0 and by one of priority 5 with another
\* id, and the listing returned the latter's node
C8_Witness ==
    /\ treeLast.op = "list_directory" /\ treeLast.ok
    /\ \E i, j \in Holders("x") :
            /\ treeMounts[i].priority < treeMounts[j].priority
            /\ treeMounts[i].id # treeMounts[j].id
            /\ \E n \in treeLast.nodes : n.name = "x" /\ n.mount_id = treeMounts[j].id

(***************************************************************************)
(* Claims on the mounts of the tree                                        *)
(***************************************************************************)
\* how often the mount m occurs in the stack ms
Occurrences(ms, m) == Cardinality({i \in 1..Len(ms) : ms[i] = m})

\* the mounts of ms whose id is not id, in the order of ms
WithOtherIds(ms, id) == SelectSeq(ms, LAMBDA m : m.id # id)

\* C23: a mount of the stack stays in it under its id through every call that
\* is not remove_mount of that id; remove_mount(id) takes out the mounts of that
\* id and no other, keeps the others in their order, and with no mount of that
\* id returns false and leaves the stack and the id cache as they were.
C23_MountsStayUntilRemoved ==
    [][/\ \A i \in 1..Len(treeMounts) :
            LET m == treeMounts[i]
            IN  ~(treeLast'.op = "remove_mount" /\ treeLast'.arg = <<m.id>>)
                    => /\ Occurrences(treeMounts', m) >= Occurrences(treeMounts, m)
                       /\ m.id \in DOMAIN treeCache'
                       /\ treeCache'[m.id].id = m.id
       /\ treeLast'.op = "remove_mount"
            => LET id == treeLast'.arg[1]
                   held == \E i \in 1..Len(treeMounts) : treeMounts[i].id = id
               IN  /\ treeMounts' = WithOtherIds(treeMounts, id)
                   /\ treeLast'.ok = held
                   /\ id \notin DOMAIN treeCache'
                   /\ \A j \in DOMAIN treeCache : j # id
                        => (j \in DOMAIN treeCache' /\ treeCache'[j] = treeCache[j])
                   /\ ~held => (treeMounts' = treeMounts /\ treeCache' = treeCache)]_vars

\* remove_mount has just returned true and left two mounts of the other id, of
\* different priorities, on the stack
C23_Witness ==
    /\ treeLast.op = "remove_mount" /\ treeLast.ok
    /\ Len(treeMounts) = 2
    /\ treeMounts[1].priority > treeMounts[2].priority
    /\ \A i \in 1..2 : treeMounts[i].id # treeLast.arg[1]

(***************************************************************************)
(* Claims on lazy records                                                  *)
(***************************************************************************)
\* what decoding the record yields
Decoded == LoadRecordValues(lazyDb, lazyDb.record.file_offset, lazyDb.record.struct_id)

\* C10: a lazy record starts not loaded; a load of a loaded record returns the
\* cached values without decoding; a load of a record that is not loaded
\* decodes, and when the decode succeeds returns the decoded values and leaves
\* the record loaded; unload leaves it not loaded; at every round of the cycle.
C10_LoadUnloadCycle ==
    /\ ~IsLoaded(recValues)
    /\ [][/\ (loads' = loads + 1 /\ IsLoaded(recValues))
               => /\ lazyLast'.ok /\ lazyLast'.values = recValues.map
                  /\ decodes' = decodes
                  /\ IsLoaded(recValues')
          /\ (loads' = loads + 1 /\ ~IsLoaded(recValues))
               => /\ decodes' = decodes + 1
                  /\ Decoded.ok => (/\ lazyLast'.ok /\ lazyLast'.values = Decoded.values
                                    /\ IsLoaded(recValues')
                                    /\ recValues'.map = Decoded.values)
          /\ lazyLast'.op = "unload" => ~IsLoaded(recValues')
          /\ lazyLast'.op = "is_loaded" => lazyLast'.ok = IsLoaded(recValues)]_vars

\* the record is loaded after its second decode and a later load that found it
\* loaded, and holds values
C10_Witness ==
    /\ lazyLast.op = "load_record" /\ lazyLast.ok
    /\ loads >= 3 /\ decodes = 2
    /\ IsLoaded(recValues)
    /\ DOMAIN lazyLast.values # {}

\* C11: whatever a thread observes of a lazy record's value cache while other
\* threads load, read and unload it, is either "not loaded" or the fully decoded
\* value map, never part of it; the cache holds nothing else whenever the lock
\* is free.
C11_ReaderNeverSeesPartial ==
    /\ \A t \in Threads :
            lzSeen[t].cell.some => (Decoded.ok /\ lzSeen[t].cell.map = Decoded.values)
    /\ (lzLock = 0 /\ recValues.some) => (Decoded.ok /\ recValues.map = Decoded.values)

\* one thread is inside the loader with part of the map decoded while the other
\* thread, which has observed the full map before, waits to read
C11_Witness ==
    \E t, u \in Threads :
        /\ t # u
        /\ lzPc[t] = "loading" /\ lzLock = t
        /\ DOMAIN lzLocal[t].values # {} /\ lzLocal[t].i < lzLocal[t].end
        /\ lzPc[u] = "read"
        /\ lzSeen[u].op \in LazyOps

\* C12: a load whose decode fails returns the error, leaves the record not
\* loaded and shows no value of the failed decode.
C12_FailedLoadLeavesUnloaded ==
    (lazyLast.op = "load_record" /\ ~lazyLast.ok)
        => /\ lazyLast.err # None
           /\ ~IsLoaded(recValues)
           /\ recValues = NotLoaded
           /\ lazyLast.values = EmptyMap

\* a load failed on the second property after the first one was decoded
C12_Witness ==
    /\ lazyLast.op = "load_record" /\ ~lazyLast.ok /\ lazyLast.err = "Io"
    /\ lazyDb.handle /\ lazyDb.record.struct_id = 0
    /\ ReadValue(lazyDb.file, lazyDb.record.file_offset, DataType("Boolean"), lazyDb.strings).ok
    /\ ~IsLoaded(recValues)

\* C26: a load of a lazy record whose decode succeeds returns the fully decoded
\* value map and never panics, whatever other threads do to the record.
C26_LoadReturnsMapUnderUnload ==
    \A t \in Threads :
        (lzSeen[t].op = "values" /\ lzPc[t] = "idle" /\ Decoded.ok)
            => /\ lzSeen[t].err # "panic"
               /\ lzSeen[t].ok
               /\ lzSeen[t].cell = Loaded(Decoded.values)

(***************************************************************************)
(* Claims on entry extraction                                              *)
(***************************************************************************)
\* the central directory entry extract_entry resolves path p to
EntryOf(file, p) == file.cd[PathIndex(file.cd, Len(file.cd))[p]]

\* C9: every successful extraction of an entry returns bytes whose CRC-32 equals
\* the CRC-32 recorded for the entry; a mismatch fails the extraction.
C9_ExtractVerifiesCrc ==
    exLast.ok => Crc32(exLast.data) = EntryOf(arcFile, exLast.path).crc32

\* C19: decompressing with the store method returns the bytes it is given
\* unchanged, and fails when their number differs from the expected size (here
\* the bytes are the entry's compressed_size bytes of the local record and the
\* expected size is the entry's uncompressed_size).
C19_StoreIdentityAndLength ==
    (exLast.ok /\ EntryOf(arcFile, exLast.path).compression = "Store") =>
        LET entry == EntryOf(arcFile, exLast.path)
        IN  /\ exLast.data = SubSeq(arcFile.local[entry.local_header_offset].data, 1,
                                    entry.compressed_size)
            /\ Len(exLast.data) = entry.uncompressed_size

(***************************************************************************)
(* Claims on the archive index                                             *)
(***************************************************************************)
\* C16: in every successfully parsed archive, each path of path_index maps to
\* one entry of the entry list, and that entry's path is the path.
C16_PathIndexConsistent ==
    (p4kLast.done /\ p4kLast.ok) =>
        \A p \in DOMAIN p4kLast.path_index :
            /\ p4kLast.path_index[p] \in 1..Len(p4kLast.entries)
            /\ p4kLast.entries[p4kLast.path_index[p]].path = p

\* an archive parsed with two entries of the same path: the index keeps the later
C16_Witness ==
    /\ p4kLast.done /\ p4kLast.ok
    /\ Len(p4kLast.entries) = 2
    /\ p4kLast.entries[1].path = p4kLast.entries[2].path
    /\ DOMAIN p4kLast.path_index = {p4kLast.entries[2].path}
    /\ p4kLast.path_index[p4kLast.entries[2].path] = 2

\* C20: a file that is an end of central directory record counting zero entries,
\* with an empty central directory, parses successfully to an empty entry list.
C20_EmptyArchiveParses ==
    (p4kLast.done /\ p4kIn.specs = <<>> /\ p4kIn.eocd \in {"Plain", "Comment"}) =>
        (p4kLast.ok /\ p4kLast.entries = <<>>)

\* the 22 byte end of central directory record of the file parsed
EocdOfInput == SubSeq(p4kIn.file, Len(p4kIn.file) - 21, Len(p4kIn.file))

\* C29: when the count, the offset or the size of the end of central directory
\* record holds its sentinel (0xFFFF, 0xFFFFFFFF), the parser reads the ZIP64
\* records and returns their count, offset and size in place of the record's.
C29_SentinelTakesZip64 ==
    (p4kLast.done /\ p4kIn.lead = "LocalRecord" /\ p4kIn.eocd \in Zip64Kinds
        /\ (\/ SubSeq(EocdOfInput, 11, 12) = <<255, 255>>
            \/ SubSeq(EocdOfInput, 13, 16) = <<255, 255, 255, 255>>
            \/ SubSeq(EocdOfInput, 17, 20) = <<255, 255, 255, 255>>))
        => /\ p4kLast.eocd.ok
           /\ p4kLast.eocd.total_entries = Len(p4kIn.specs)
           /\ p4kLast.eocd.cd_offset = Len(LeadBytes(p4kIn.lead))
           /\ p4kLast.eocd.cd_size = AsU64(U32Le(Len(CdBytes(p4kIn.specs))))

(***************************************************************************)
(* Claims on the record database                                           *)
(***************************************************************************)
\* C14: for every record of a lazy database, the values of its eager form
\* (to_eager) are the map the eager parse of the same file gives that record,
\* whatever the types of its properties.
C14_LazyEqualsEager ==
    (dcbLast.done /\ dcbLast.eager.ok /\ dcbLast.lazy.ok) =>
        /\ Len(dcbLast.lazy.records) = Len(dcbLast.eager.records)
        /\ \A i \in 1..Len(dcbLast.eager.records) :
              dcbLast.lazy.records[i].values = dcbLast.eager.records[i].values

\* the names of the properties in a struct's property range
SchemaNames(db, struct_def) ==
    {db.properties[i + 1].name :
        i \in {j \in struct_def.property_start
                       .. (struct_def.property_start + struct_def.property_count - 1) :
                 j < Len(db.properties)}}

\* C15: every record of a successfully parsed database has a struct id that
\* indexes the struct table, and the keys of its value map are exactly the
\* names of that struct's properties.
C15_RecordsMatchSchema ==
    (dcbLast.done /\ dcbLast.eager.ok) =>
        \A i \in 1..Len(dcbLast.eager.records) :
            LET r == dcbLast.eager.records[i]
            IN  /\ r.struct_id < Len(dcbIn.structs)
                /\ DOMAIN r.values = SchemaNames(dcbIn, dcbIn.structs[r.struct_id + 1])

(***************************************************************************)
(* Claims on geometry parsing                                              *)
(***************************************************************************)
\* the chunk table of the file parsed
CgfTable ==
    LET h == ParseHeader(cgfIn.file)
    IN  ParseChunkTable(cgfIn.file, h.chunk_table_offset, h.chunk_count, h.version).chunks

\* C13: a parse that returns a model has decoded every chunk of the chunk
\* table; when the decoder of a chunk fails the parse fails and yields no model.
C13_ChunkFailureFailsParse ==
    (cgfLast.done /\ cgfLast.ok)
        => \A i \in 1..Len(CgfTable) : DecodeChunk(cgfIn.file, CgfTable[i]).ok

\* C17: in every skeleton of a parsed model, a bone's parent index is less than
\* the number of bones and is not the bone's own index.
C17_SkeletonParentsValid ==
    (cgfLast.done /\ cgfLast.ok)
        => \A k \in 1..Len(cgfLast.model.skeleton) :
              LET bones == cgfLast.model.skeleton[k].bones
              IN  \A i \in 1..Len(bones) :
                      bones[i].parent_index.some
                          => /\ bones[i].parent_index.index < Len(bones)
                             /\ bones[i].parent_index.index # i - 1

\* C18: in every mesh of a parsed model, each of the three vertex indices of
\* every face is less than the number of vertices of the mesh.
C18_FaceIndicesInRange ==
    (cgfLast.done /\ cgfLast.ok)
        => \A k \in 1..Len(cgfLast.model.meshes) :
              LET mesh == cgfLast.model.meshes[k]
              IN  \A f \in 1..Len(mesh.faces) : \A j \in 1..3 :
                      mesh.faces[f].indices[j] < Len(mesh.vertices)

\* C27: for every skeleton of a parsed model and every bone i of it, the chain
\* from i to the root is returned, starts at i, goes from each bone to its
\* parent, holds no bone twice and ends at a bone without parent.
C27_BoneChainReachesRoot ==
    (cgfLast.done /\ cgfLast.ok)
        => \A k \in 1..Len(cgfLast.model.skeleton) :
              LET bones == cgfLast.model.skeleton[k].bones
              IN  \A i \in 0..(Len(bones) - 1) :
                      LET r == BoneChainToRoot(cgfLast.model.skeleton[k], i)
                          n == Len(r.chain)
                      IN  /\ r.returns
                          /\ r.chain[1] = i
                          /\ \A j \in 1..n : r.chain[j] < Len(bones)
                          /\ \A j \in 1..(n - 1) :
                                bones[r.chain[j] + 1].parent_index = SomeIndex(r.chain[j + 1])
                          /\ \A j1, j2 \in 1..n : r.chain[j1] = r.chain[j2] => j1 = j2
                          /\ ~bones[r.chain[n] + 1].parent_index.some

(***************************************************************************)
(* Claims on the queries of an archive                                     *)
(***************************************************************************)
\* the positions a query returned
Found == {queryLast.found[k] : k \in 1..Len(queryLast.found)}

\* path is dir + "/" + child, where child is not empty and holds no '/' but
\* for one that ends it
IsChildOf(path, dir) ==
    /\ StartsWith(path, dir \o <<Slash>>)
    /\ LET child == SubSeq(path, Len(dir) + 2, Len(path))
           name == IF child # <<>> /\ child[Len(child)] = Slash
                   THEN SubSeq(child, 1, Len(child) - 1) ELSE child
       IN  name # <<>> /\ \A k \in 1..Len(name) : name[k] # Slash

\* C21: the listing of directory P returns exactly the entries whose path is
\* P + "/" + child with a child that is not empty and holds no further '/' but
\* for a trailing one; not P's own stub, nothing deeper, nothing outside P.
C21_ListingReturnsDirectChildren ==
    (queryLast.op = "list_directory" /\ queryLast.arg # <<>>
        /\ queryLast.arg[Len(queryLast.arg)] # Slash)
        => \A i \in 1..Len(arch.entries) :
              (i \in Found) <=> IsChildOf(arch.entries[i].path, queryLast.arg)

AsciiLower(str) == [i \in 1..Len(str) |-> IF str[i] \in 65..90 THEN str[i] + 32 ELSE str[i]]

\* str matches the pattern, each '*' of which stands for any run of characters
RECURSIVE GlobMatches(_, _)
GlobMatches(pattern, str) ==
    IF pattern = <<>> THEN str = <<>>
    ELSE IF Head(pattern) = Star
    THEN GlobMatches(Tail(pattern), str) \/ (str # <<>> /\ GlobMatches(pattern, Tail(str)))
    ELSE str # <<>> /\ Head(str) = Head(pattern) /\ GlobMatches(Tail(pattern), Tail(str))

\* C22: find returns exactly the entries whose lowercased path matches the
\* lowercased pattern, '*' standing for any run of characters: what precedes
\* the first '*' starts the path and what follows the last '*' ends it.
C22_FindMatchesPattern ==
    queryLast.op = "find"
        => \A i \in 1..Len(arch.entries) :
              (i \in Found) <=> GlobMatches(AsciiLower(queryLast.arg),
                                            AsciiLower(arch.entries[i].path))

(***************************************************************************)
(* Claims on chunked reading                                               *)
(***************************************************************************)
RECURSIVE Concat(_)
Concat(seqs) == IF seqs = <<>> THEN <<>> ELSE Head(seqs) \o Concat(Tail(seqs))

\* every call of read_chunk returns; the chunks returned are the stream cut
\* into pieces of chunk_size bytes, the last one shorter when the stream ends
\* in it; None comes when the stream is used up
ChunksCutStream ==
    LET chunks == chunkLast.chunks
        read == Concat(chunks)
    IN  /\ ~chunkLast.hung
        /\ read = SubSeq(chunked.data, 1, Len(read))
        /\ \A k \in 1..Len(chunks) :
              \/ Len(chunks[k]) = chunked.chunk_size
              \/ /\ k = Len(chunks) /\ chunks[k] # <<>>
                 /\ Len(chunks[k]) < chunked.chunk_size /\ read = chunked.data
        /\ chunkLast.ended => read = chunked.data

\* C24: read_chunk returns the stream in chunks of chunk_size bytes (the last
\* one may be shorter), whose concatenation is the stream, and then None at
\* the end of the stream; process_chunks comes to its end.
C24_ChunksThenNone == []ChunksCutStream /\ <>chunkLast.ended

(***************************************************************************)
(* Claims on the parser registry                                           *)
(***************************************************************************)
\* the ids of the parsers registered for the extension (lowercase, no dot)
RegisteredFor(ext_lower) ==
    {id \in DOMAIN registry.parsers :
        \E k \in 1..Len(registry.parsers[id].extensions) :
            ToLowercase(registry.parsers[id].extensions[k]) = ext_lower}

\* C28: after every register and unregister the ids listed for an extension
\* are in descending order of priority, and get_for_extension returns a parser
\* of the highest priority among those registered for the extension.
C28_ExtensionIdsByPriority ==
    /\ \A ext \in DOMAIN registry.extension_map :
          LET ids == registry.extension_map[ext]
          IN  \A i, j \in 1..Len(ids) :
                  i < j => registry.parsers[ids[i]].priority >= registry.parsers[ids[j]].priority
    /\ (regLast.op = "get_for_extension" /\ regLast.ok)
          => \A id \in RegisteredFor(TrimStartMatches(ToLowercase(regLast.arg), 46)) :
                registry.parsers[regLast.id].priority >= registry.parsers[id].priority

(***************************************************************************)
(* Claims on split textures                                                *)
(***************************************************************************)
\* the number written in the digits
RECURSIVE NumberOf(_)
NumberOf(digits) ==
    IF digits = <<>> THEN 0
    ELSE 10 * NumberOf(SubSeq(digits, 1, Len(digits) - 1)) + (digits[Len(digits)] - 48)

\* the place of a split file in the texture: its number N, then 0 for N, 1 for
\* Na, 2 for Nb
SplitPlace(name) ==
    LET suffix == SubSeq(name, Len(BaseName) + 2, Len(name))
        last == suffix[Len(suffix)]
    IN  IF last \in {97, 98}
        THEN <<NumberOf(SubSeq(suffix, 1, Len(suffix) - 1)), last - 96>>
        ELSE <<NumberOf(suffix), 0>>

\* C30: the split files find_split_files returns are in the order of the
\* texture: by their number N from 1 to 99, and Na before Nb.
C30_SplitFilesInOrder ==
    splitLast.done
        => \A i, j \in 1..Len(splitLast.files) :
              i < j => LET a == SplitPlace(splitLast.files[i])
                           b == SplitPlace(splitLast.files[j])
                       IN  a[1] < b[1] \/ (a[1] = b[1] /\ a[2] < b[2])

(***************************************************************************)
(* Specifications                                                          *)
(***************************************************************************)
MoreIdle == ArchiveIdle /\ ChunkedIdle /\ RegistryInit /\ CombinerIdle

FirstIdle ==
    CacheInit /\ VfsInit /\ ExtractIdle /\ TreeInit /\ LazyIdle /\ CgfIdle /\ DcbIdle /\ P4kIdle

Init == CacheInit /\ VfsInit /\ ExtractIdle /\ TreeInit /\ LazyIdle /\ CgfIdle /\ DcbIdle /\ P4kIdle /\ MoreIdle

Next == CacheNext

Spec == Init /\ [][Next]_vars

SpecVfs == Init /\ [][VfsNext]_vars

SpecTree == Init /\ [][TreeNext]_vars

InitExtract == CacheInit /\ VfsInit /\ ExtractInit /\ TreeInit /\ LazyIdle /\ CgfIdle /\ DcbIdle /\ P4kIdle /\ MoreIdle

SpecExtract == InitExtract /\ [][ExtractNext]_vars

InitLazy == CacheInit /\ VfsInit /\ ExtractIdle /\ TreeInit /\ LazyInit /\ CgfIdle /\ DcbIdle /\ P4kIdle /\ MoreIdle

SpecLazy == InitLazy /\ [][LazyNext]_vars

SpecLazyConc == InitLazy /\ [][LazyConcNext]_vars

InitCgf == CacheInit /\ VfsInit /\ ExtractIdle /\ TreeInit /\ LazyIdle /\ CgfInit /\ DcbIdle /\ P4kIdle /\ MoreIdle

SpecCgf == InitCgf /\ [][CgfNext]_vars

InitDcb ==
    CacheInit /\ VfsInit /\ ExtractIdle /\ TreeInit /\ LazyIdle /\ CgfIdle /\ DcbInit /\ P4kIdle /\ MoreIdle

SpecDcb == InitDcb /\ [][DcbNext]_vars

InitP4k ==
    CacheInit /\ VfsInit /\ ExtractIdle /\ TreeInit /\ LazyIdle /\ CgfIdle /\ DcbIdle /\ P4kInit /\ MoreIdle

SpecP4k == InitP4k /\ [][P4kNext]_vars

InitArchive == FirstIdle /\ ArchiveInit /\ ChunkedIdle /\ RegistryInit /\ CombinerIdle

SpecArchive == InitArchive /\ [][ArchiveNext]_vars

InitChunked == FirstIdle /\ ArchiveIdle /\ ChunkedInit /\ RegistryInit /\ CombinerIdle

SpecRegistry == Init /\ [][RegistryNext]_vars

InitCombiner == FirstIdle /\ ArchiveIdle /\ ChunkedIdle /\ RegistryInit /\ CombinerInit

SpecCombiner == InitCombiner /\ [][CombinerNext]_vars

\* process_chunks calls read_chunk again for as long as it gets a chunk
SpecChunked == InitChunked /\ [][ChunkedNext]_vars /\ WF_vars(ChunkedNext)

=============================================================================
